---- MODULE Spec2Model ----
(***************************************************************************)
(* Retirement simulator: the calendar and projection functions of          *)
(* src/utils/finance.js and the callers that validate their inputs.        *)
(*                                                                         *)
(* Values.  A JavaScript Date is a record [t |-> "date", y, m, d] with the *)
(* UTC year, the UTC month index 0..11 and the UTC day of month; the       *)
(* Invalid Date (NaN time value) is [t |-> "invalid"]; null/undefined is   *)
(* [t |-> "null"].  A JavaScript number is [t |-> "num", v |-> i] for the  *)
(* integer i, [t |-> "frac", v |-> i] for the non-integer i + 1/2, and     *)
(* [t |-> "nan"], [t |-> "inf"], [t |-> "ninf"] for NaN and the            *)
(* infinities.  A string is [t |-> "str", s |-> <<characters>>].  A thrown *)
(* exception is [t |-> "throw", kind, msg].                                *)
(***************************************************************************)
EXTENDS Integers, Sequences, FiniteSets, TLC

VARIABLES op, args, ret, pc

vars == <<op, args, ret, pc>>

(* ------------------------------------------------------------------ *)
(* Values                                                             *)
(* ------------------------------------------------------------------ *)

Null == [t |-> "null"]

InvalidDate == [t |-> "invalid"]

NaN == [t |-> "nan"]

Infinity == [t |-> "inf"]

NegInfinity == [t |-> "ninf"]

Num(i) == [t |-> "num", v |-> i]

Frac(i) == [t |-> "frac", v |-> i]

Str(s) == [t |-> "str", s |-> s]

Throw(kind, msg) == [t |-> "throw", kind |-> kind, msg |-> msg]

MkDate(y, m, d) == [t |-> "date", y |-> y, m |-> m, d |-> d]

\* typeof x === 'number'
IsNumber(x) == x.t \in {"num", "frac", "nan", "inf", "ninf"}

\* Number.isFinite(x)
IsFinite(x) == x.t \in {"num", "frac"}

\* Number.isInteger(x)
IsInteger(x) == x.t = "num"

\* x instanceof Date && !Number.isNaN(x.getTime())
IsValidDate(x) == x.t = "date"

\* ToIntegerOrInfinity of a finite number: the fractional part is dropped
\* (truncation toward zero).
Trunc(x) == IF x.t = "num" THEN x.v ELSE IF x.v >= 0 THEN x.v ELSE x.v + 1

\* x <= 0 for a finite number x
LeqZero(x) == IF x.t = "num" THEN x.v <= 0 ELSE x.v < 0

\* x <= i for a finite number x and an integer i
LeqInt(x, i) == IF x.t = "num" THEN x.v <= i ELSE x.v < i

(* ------------------------------------------------------------------ *)
(* ECMAScript Date arithmetic (proleptic Gregorian calendar, UTC)     *)
(* ------------------------------------------------------------------ *)

IsLeap(y) == (y % 4 = 0 /\ y % 100 # 0) \/ y % 400 = 0

\* days in month index m (0..11) of year y
DaysInMonth(y, m) ==
  IF m = 1 THEN (IF IsLeap(y) THEN 29 ELSE 28)
  ELSE IF m \in {3, 5, 8, 10} THEN 30 ELSE 31

\* MakeDay: day `d` of month index `m` of year `y`, where m and d may lie
\* outside their ranges and carry into the neighbouring months and years.
RECURSIVE MakeDay(_, _, _)
MakeDay(y, m, d) ==
  IF m < 0 THEN MakeDay(y - 1, m + 12, d)
  ELSE IF m > 11 THEN MakeDay(y + 1, m - 12, d)
  ELSE IF d < 1 THEN
    (IF m = 0 THEN MakeDay(y - 1, 11, d + DaysInMonth(y - 1, 11))
     ELSE MakeDay(y, m - 1, d + DaysInMonth(y, m - 1)))
  ELSE IF d > DaysInMonth(y, m) THEN MakeDay(y, m + 1, d - DaysInMonth(y, m))
  ELSE MkDate(y, m, d)

\* Date.UTC(year, month, day): a year 0..99 means 1900 + year.
DateUTC(year, month, day) ==
  MakeDay(IF year >= 0 /\ year <= 99 THEN 1900 + year ELSE year, month, day)

\* date.setUTCFullYear(year), year a number: no two-digit-year rule here.
\* TimeClip: a day more than 100,000,000 days from 1970-01-01 (after
\* 275760-09-13 or before -271821-04-20) gives an Invalid Date.
setUTCFullYear(date, year) ==
  IF ~IsValidDate(date) \/ ~IsFinite(year) THEN InvalidDate
  ELSE LET day == MakeDay(Trunc(year), date.m, date.d)
       IN IF \/ day.y > 275760
             \/ day.y = 275760 /\ (day.m > 8 \/ (day.m = 8 /\ day.d > 13))
             \/ day.y < 0 - 271821
             \/ day.y = 0 - 271821 /\ (day.m < 3 \/ (day.m = 3 /\ day.d < 20))
          THEN InvalidDate
          ELSE day

\* date.setUTCMonth(month)
setUTCMonth(date, month) ==
  IF ~IsValidDate(date) THEN InvalidDate ELSE MakeDay(date.y, month, date.d)

\* date.setUTCDate(day)
setUTCDate(date, day) ==
  IF ~IsValidDate(date) THEN InvalidDate ELSE MakeDay(date.y, date.m, day)

\* a < b on time values of two valid dates
DateLT(a, b) ==
  \/ a.y < b.y
  \/ a.y = b.y /\ a.m < b.m
  \/ a.y = b.y /\ a.m = b.m /\ a.d < b.d

DateLE(a, b) == DateLT(a, b) \/ (a.y = b.y /\ a.m = b.m /\ a.d = b.d)

(* ------------------------------------------------------------------ *)
(* Text: a string's characters are one-character strings              *)
(* ------------------------------------------------------------------ *)

IsString(x) == x.t = "str"

DigitChars == <<"0", "1", "2", "3", "4", "5", "6", "7", "8", "9">>

\* the class \d of a regular expression
IsDigit(c) == \E i \in 1 .. 10 : DigitChars[i] = c

DigitValue(c) == (CHOOSE i \in 1 .. 10 : DigitChars[i] = c) - 1

AllDigits(s) == \A i \in 1 .. Len(s) : IsDigit(s[i])

\* the value of the first n characters of a sequence of decimal digits
RECURSIVE DigitsValueTo(_, _)
DigitsValueTo(s, n) ==
  IF n = 0 THEN 0 ELSE 10 * DigitsValueTo(s, n - 1) + DigitValue(s[n])

\* the value of a sequence of decimal digits
DigitsValue(s) == DigitsValueTo(s, Len(s))

\* the decimal digits of n >= 0, zero-padded to at least `width` characters
RECURSIVE PadDigits(_, _)
PadDigits(n, width) ==
  IF n < 10 /\ width <= 1 THEN <<DigitChars[n + 1]>>
  ELSE PadDigits(n \div 10, width - 1) \o <<DigitChars[(n % 10) + 1]>>

\* date.toISOString().slice(0, 10) for a date of a year 0..9999
toISODate(date) ==
  Str(PadDigits(date.y, 4) \o <<"-">> \o PadDigits(date.m + 1, 2)
        \o <<"-">> \o PadDigits(date.d, 2))

(* ------------------------------------------------------------------ *)
(* src/utils/finance.js: calendar functions                           *)
(* ------------------------------------------------------------------ *)

\* input.match(/^(\d{4})-(\d{2})-(\d{2})$/)
MatchesISOPattern(s) ==
  /\ Len(s) = 10
  /\ s[5] = "-"
  /\ s[8] = "-"
  /\ \A i \in {1, 2, 3, 4, 6, 7, 9, 10} : IsDigit(s[i])

parseISODate(input) ==
  IF ~IsString(input) THEN Null
  ELSE IF ~MatchesISOPattern(input.s) THEN Null
  ELSE LET year == DigitsValue(SubSeq(input.s, 1, 4))
           month == DigitsValue(SubSeq(input.s, 6, 7)) - 1
           day == DigitsValue(SubSeq(input.s, 9, 10))
           date == DateUTC(year, month, day)
       IN IF date.y # year \/ date.m # month \/ date.d # day THEN Null
          ELSE date

\* addYears without the month comparison of lines 32-34
addYears_NoClamp(date, years) ==
  IF ~IsValidDate(date) THEN Throw("TypeError", "date")
  ELSE IF ~IsNumber(years) \/ ~IsFinite(years) THEN Throw("TypeError", "years")
  ELSE LET result == DateUTC(date.y, date.m, date.d)
       IN setUTCFullYear(result, IF years.t = "num"
                                 THEN Num(result.y + years.v)
                                 ELSE Frac(result.y + years.v))

\* addYears with the day set back whether or not the month changed
addYears_ClampAlways(date, years) ==
  IF ~IsValidDate(date) THEN Throw("TypeError", "date")
  ELSE IF ~IsNumber(years) \/ ~IsFinite(years) THEN Throw("TypeError", "years")
  ELSE LET result == DateUTC(date.y, date.m, date.d)
           moved == setUTCFullYear(result, IF years.t = "num"
                                           THEN Num(result.y + years.v)
                                           ELSE Frac(result.y + years.v))
       IN IF ~IsValidDate(moved) THEN InvalidDate
          ELSE setUTCDate(moved, 0)

addYears(date, years) ==
  IF ~IsValidDate(date) THEN Throw("TypeError", "date")
  ELSE IF ~IsNumber(years) \/ ~IsFinite(years) THEN Throw("TypeError", "years")
  ELSE LET result == DateUTC(date.y, date.m, date.d)
           moved == setUTCFullYear(result, IF years.t = "num"
                                           THEN Num(result.y + years.v)
                                           ELSE Frac(result.y + years.v))
       IN IF ~IsValidDate(moved) THEN InvalidDate
          ELSE IF moved.m # date.m THEN setUTCDate(moved, 0)
          ELSE moved

\* the loop with the test cursor <= endUTC
RECURSIVE monthsLoopBlock_Inclusive(_, _, _, _)
monthsLoopBlock_Inclusive(cursor, endUTC, months, fuel) ==
  IF ~DateLE(cursor, endUTC) THEN <<cursor, months, FALSE>>
  ELSE IF fuel = 0 THEN <<cursor, months, TRUE>>
  ELSE monthsLoopBlock_Inclusive(setUTCMonth(cursor, cursor.m + 1), endUTC,
                                 months + 1, fuel - 1)

\* iterations of the while loop evaluated per block (bounds the depth of the
\* evaluation only; the loop is the same for every value >= 1)
LoopBlock == 24

\* lines 54-57, at most `fuel` iterations of
\*   while (cursor < endUTC) { months += 1; cursor.setUTCMonth(month + 1); }
\* from the loop state <<cursor, months>>; the third component tells whether
\* the loop goes on
RECURSIVE monthsLoopBlock(_, _, _, _)
monthsLoopBlock(cursor, endUTC, months, fuel) ==
  IF ~DateLT(cursor, endUTC) THEN <<cursor, months, FALSE>>
  ELSE IF fuel = 0 THEN <<cursor, months, TRUE>>
  ELSE monthsLoopBlock(setUTCMonth(cursor, cursor.m + 1), endUTC, months + 1,
                       fuel - 1)

\* lines 52-58: the whole loop, block after block; the final value of months
RECURSIVE monthsLoop(_, _, _)
monthsLoop(cursor, endUTC, months) ==
  LET r == monthsLoopBlock(cursor, endUTC, months, LoopBlock)
  IN IF r[3] THEN monthsLoop(r[1], endUTC, r[2]) ELSE r[2]

\* the difference of the year and month fields, less one when the day of
\* end is before the day of start, in place of the comparison and the loop
monthsBetweenDates_FieldDifference(start, end) ==
  IF ~IsValidDate(start) THEN Throw("TypeError", "start")
  ELSE IF ~IsValidDate(end) THEN Throw("TypeError", "end")
  ELSE Num((end.y - start.y) * 12 + (end.m - start.m)
           - (IF end.d < start.d THEN 1 ELSE 0))

monthsBetweenDates(start, end) ==
  IF ~IsValidDate(start) THEN Throw("TypeError", "start")
  ELSE IF ~IsValidDate(end) THEN Throw("TypeError", "end")
  ELSE LET startUTC == DateUTC(start.y, start.m, start.d)
           endUTC == DateUTC(end.y, end.m, end.d)
       IN IF DateLE(endUTC, startUTC) THEN Num(0)
          ELSE Num(monthsLoop(startUTC, endUTC, 0))

\* calculateAgeInYears with referenceDay <= birthDay at line 97
calculateAgeInYears_DayLeq(referenceDate, birthDate) ==
  IF ~IsValidDate(referenceDate) THEN Throw("TypeError", "referenceDate")
  ELSE IF ~IsValidDate(birthDate) THEN Throw("TypeError", "birthDate")
  ELSE LET age == referenceDate.y - birthDate.y
       IN IF \/ referenceDate.m < birthDate.m
             \/ (referenceDate.m = birthDate.m /\ referenceDate.d <= birthDate.d)
          THEN Num(age - 1)
          ELSE Num(age)

calculateAgeInYears(referenceDate, birthDate) ==
  IF ~IsValidDate(referenceDate) THEN Throw("TypeError", "referenceDate")
  ELSE IF ~IsValidDate(birthDate) THEN Throw("TypeError", "birthDate")
  ELSE LET age == referenceDate.y - birthDate.y
       IN IF \/ referenceDate.m < birthDate.m
             \/ (referenceDate.m = birthDate.m /\ referenceDate.d < birthDate.d)
          THEN Num(age - 1)
          ELSE Num(age)

(* ------------------------------------------------------------------ *)
(* Number arithmetic.  Amounts, rates and period counts are integers; *)
(* a magnitude above MaxNumber overflows to an infinity, as a double  *)
(* does above Number.MAX_VALUE.                                       *)
(* ------------------------------------------------------------------ *)

\* largest finite magnitude of the model's numbers
MaxNumber == 1000000000

Abs(i) == IF i < 0 THEN 0 - i ELSE i

Sat(i) ==
  IF i > MaxNumber THEN Infinity
  ELSE IF i < 0 - MaxNumber THEN NegInfinity
  ELSE Num(i)

Sign(x) ==
  IF x.t = "inf" THEN 1
  ELSE IF x.t = "ninf" THEN 0 - 1
  ELSE IF x.v > 0 THEN 1 ELSE IF x.v < 0 THEN 0 - 1 ELSE 0

\* x + y
Add(x, y) ==
  IF x.t = "nan" \/ y.t = "nan" THEN NaN
  ELSE IF IsFinite(x) /\ IsFinite(y) THEN Sat(x.v + y.v)
  ELSE IF ~IsFinite(x) /\ ~IsFinite(y) THEN (IF x.t = y.t THEN x ELSE NaN)
  ELSE IF IsFinite(x) THEN y ELSE x

Neg(x) ==
  IF x.t = "nan" THEN NaN
  ELSE IF x.t = "inf" THEN NegInfinity
  ELSE IF x.t = "ninf" THEN Infinity
  ELSE IF x.t = "frac" THEN Frac(0 - x.v - 1)
  ELSE Num(0 - x.v)

\* x - y
Sub(x, y) == Add(x, Neg(y))

\* x * y
Mul(x, y) ==
  IF x.t = "nan" \/ y.t = "nan" THEN NaN
  ELSE IF IsFinite(x) /\ IsFinite(y) THEN
    (IF x.v = 0 \/ y.v = 0 THEN Num(0)
     ELSE IF Abs(x.v) > MaxNumber \div Abs(y.v)
       THEN (IF Sign(x) * Sign(y) > 0 THEN Infinity ELSE NegInfinity)
     ELSE Num(x.v * y.v))
  ELSE IF Sign(x) * Sign(y) = 0 THEN NaN
  ELSE IF Sign(x) * Sign(y) > 0 THEN Infinity ELSE NegInfinity

\* x / y; a finite quotient is exact wherever the model divides
Div(x, y) ==
  IF x.t = "nan" \/ y.t = "nan" THEN NaN
  ELSE IF ~IsFinite(x) /\ ~IsFinite(y) THEN NaN
  ELSE IF ~IsFinite(y) THEN Num(0)
  ELSE IF y.v = 0 THEN
    (IF Sign(x) = 0 THEN NaN ELSE IF Sign(x) > 0 THEN Infinity ELSE NegInfinity)
  ELSE IF ~IsFinite(x) THEN
    (IF Sign(x) * Sign(y) > 0 THEN Infinity ELSE NegInfinity)
  ELSE IF (x.v < 0) = (y.v < 0) THEN Num(Abs(x.v) \div Abs(y.v))
  ELSE Num(0 - (Abs(x.v) \div Abs(y.v)))

\* Math.pow(x, n) for an integer n >= 0
RECURSIVE Pow(_, _)
Pow(x, n) ==
  IF n = 0 THEN Num(1)
  ELSE LET half == Pow(x, n \div 2)
       IN IF n % 2 = 0 THEN Mul(half, half) ELSE Mul(Mul(half, half), x)

RECURSIVE IntPow(_, _)
IntPow(g, n) == IF n = 0 THEN 1 ELSE g * IntPow(g, n - 1)

\* monthly growth factors 1 + r whose 12th power the model can hold
GrowthFactors == {0, 1, 2}

\* Math.pow(x, 1 / 12): the 12th root; NaN for a negative x
Root12(x) ==
  IF x.t = "nan" THEN NaN
  ELSE IF x.t = "inf" THEN Infinity
  ELSE IF x.t = "ninf" THEN Infinity
  ELSE IF x.v < 0 THEN NaN
  ELSE Num(CHOOSE g \in GrowthFactors : IntPow(g, 12) = x.v)

(* ------------------------------------------------------------------ *)
(* src/utils/finance.js: projection functions                         *)
(* ------------------------------------------------------------------ *)

\* annualRateToMonthlyRate without the Number.isFinite test of line 62
annualRateToMonthlyRate_NoFiniteCheck(annualRate) ==
  IF ~IsNumber(annualRate) THEN Throw("TypeError", "annualRate")
  ELSE Sub(Root12(Add(Num(1), annualRate)), Num(1))

annualRateToMonthlyRate(annualRate) ==
  IF ~IsNumber(annualRate) \/ ~IsFinite(annualRate)
  THEN Throw("TypeError", "annualRate")
  ELSE Sub(Root12(Add(Num(1), annualRate)), Num(1))

\* futureValueOfAnnuity without the monthlyRate === 0 branch of line 79
futureValueOfAnnuity_NoZeroBranch(payment, monthlyRate, periods) ==
  IF ~IsNumber(payment) \/ ~IsFinite(payment) THEN Throw("TypeError", "payment")
  ELSE IF ~IsNumber(monthlyRate) \/ monthlyRate.t = "nan"
    THEN Throw("TypeError", "monthlyRate")
  ELSE IF ~IsNumber(periods) \/ ~IsFinite(periods) THEN Throw("TypeError", "periods")
  ELSE IF LeqZero(periods) THEN Num(0)
  ELSE Mul(payment,
           Div(Sub(Pow(Add(Num(1), monthlyRate), periods.v), Num(1)), monthlyRate))

\* futureValueOfAnnuity with every payment made at the start of its period
futureValueOfAnnuity_Due(payment, monthlyRate, periods) ==
  IF ~IsNumber(payment) \/ ~IsFinite(payment) THEN Throw("TypeError", "payment")
  ELSE IF ~IsNumber(monthlyRate) \/ monthlyRate.t = "nan"
    THEN Throw("TypeError", "monthlyRate")
  ELSE IF ~IsNumber(periods) \/ ~IsFinite(periods) THEN Throw("TypeError", "periods")
  ELSE IF LeqZero(periods) THEN Num(0)
  ELSE IF monthlyRate = Num(0) THEN Mul(payment, periods)
  ELSE Mul(Mul(payment,
               Div(Sub(Pow(Add(Num(1), monthlyRate), periods.v), Num(1)),
                   monthlyRate)),
           Add(Num(1), monthlyRate))

futureValueOfAnnuity(payment, monthlyRate, periods) ==
  IF ~IsNumber(payment) \/ ~IsFinite(payment) THEN Throw("TypeError", "payment")
  ELSE IF ~IsNumber(monthlyRate) \/ monthlyRate.t = "nan"
    THEN Throw("TypeError", "monthlyRate")
  ELSE IF ~IsNumber(periods) \/ ~IsFinite(periods) THEN Throw("TypeError", "periods")
  ELSE IF LeqZero(periods) THEN Num(0)
  ELSE IF monthlyRate = Num(0) THEN Mul(payment, periods)
  ELSE Mul(payment,
           Div(Sub(Pow(Add(Num(1), monthlyRate), periods.v), Num(1)), monthlyRate))

retirementAgeFromYear(birthDate, retirementYear) ==
  IF ~IsValidDate(birthDate) THEN Throw("TypeError", "birthDate")
  ELSE IF ~IsNumber(retirementYear) \/ ~IsFinite(retirementYear) THEN Null
  ELSE IF retirementYear.t = "num" THEN Num(retirementYear.v - birthDate.y)
  ELSE Frac(retirementYear.v - birthDate.y)

IsThrow(x) == x.t = "throw"

\* Array.isArray(x)
IsArray(x) == x.t = "array"

Array(a) == [t |-> "array", a |-> a]

\* value is a number, finite and > 0
IsPositiveFinite(value) == IsNumber(value) /\ IsFinite(value) /\ ~LeqZero(value)

\* one element of contributions.map(...) at lines 163-177
\* scenarioOf with the ids counted from 1
scenarioOf_IdFromOne(monthlyContribution, index, monthlyRate, monthsToRetirement) ==
  LET futureValue ==
        futureValueOfAnnuity(monthlyContribution, monthlyRate, monthsToRetirement)
      totalContributed == Mul(monthlyContribution, monthsToRetirement)
  IN IF IsThrow(futureValue) THEN futureValue
     ELSE [t |-> "scenario",
           id |-> index + 1,
           monthlyContribution |-> monthlyContribution,
           futureValue |-> futureValue,
           totalContributed |-> totalContributed,
           interestEarned |-> Sub(futureValue, totalContributed)]

scenarioOf(monthlyContribution, index, monthlyRate, monthsToRetirement) ==
  LET futureValue ==
        futureValueOfAnnuity(monthlyContribution, monthlyRate, monthsToRetirement)
      totalContributed == Mul(monthlyContribution, monthsToRetirement)
  IN IF IsThrow(futureValue) THEN futureValue
     ELSE [t |-> "scenario",
           id |-> index,
           monthlyContribution |-> monthlyContribution,
           futureValue |-> futureValue,
           totalContributed |-> totalContributed,
           interestEarned |-> Sub(futureValue, totalContributed)]

\* lines 149-151 with < in place of <=
targetIsPast_Strict(monthsToRetirement) == monthsToRetirement.v < 0

\* lines 149-151 left out
targetIsPast_Never(monthsToRetirement) == FALSE

\* lines 149-151: if (monthsToRetirement <= 0) throw
targetIsPast(monthsToRetirement) == monthsToRetirement.v <= 0

\* the two years stored in each other's field
yearMismatchOf_Swapped(retirementYear, expectedRetirementYear) ==
  IF retirementYear # Null /\ retirementYear # Num(expectedRetirementYear)
  THEN [t |-> "mismatch",
        expected |-> retirementYear.v,
        provided |-> expectedRetirementYear]
  ELSE Null

\* lines 154-160
yearMismatchOf(retirementYear, expectedRetirementYear) ==
  IF retirementYear # Null /\ retirementYear # Num(expectedRetirementYear)
  THEN [t |-> "mismatch",
        expected |-> expectedRetirementYear,
        provided |-> retirementYear.v]
  ELSE Null

\* lines 147-194: the computation after the field checks
planOf(in) ==
  LET targetDate == addYears(in.birthDate, in.retirementAge)
      monthsToRetirement == monthsBetweenDates(in.today, targetDate)
  IN IF IsThrow(monthsToRetirement) THEN monthsToRetirement
     ELSE IF targetIsPast(monthsToRetirement) THEN Throw("RangeError", "future")
     ELSE
       LET expectedRetirementYear == targetDate.y
           yearMismatch == yearMismatchOf(in.retirementYear, expectedRetirementYear)
           monthlyRate == annualRateToMonthlyRate(in.annualReturnRate)
           contributions == in.monthlyContributions.a
           scenarios ==
             [i \in 1 .. Len(contributions) |->
                scenarioOf(contributions[i], i - 1, monthlyRate, monthsToRetirement)]
       IN IF IsThrow(monthlyRate) THEN monthlyRate
          ELSE IF \E i \in 1 .. Len(contributions) : IsThrow(scenarios[i])
            THEN scenarios[CHOOSE i \in 1 .. Len(contributions) :
                             /\ IsThrow(scenarios[i])
                             /\ \A j \in 1 .. (i - 1) : ~IsThrow(scenarios[j])]
          ELSE [t |-> "plan",
                targetDate |-> targetDate,
                expectedRetirementYear |-> expectedRetirementYear,
                monthsToRetirement |-> monthsToRetirement.v,
                duration |-> [years |-> monthsToRetirement.v \div 12,
                              months |-> monthsToRetirement.v % 12],
                scenarios |-> scenarios,
                monthlyRate |-> monthlyRate,
                annualReturnRate |-> in.annualReturnRate,
                yearMismatch |-> yearMismatch,
                currentAge |-> calculateAgeInYears(in.today, in.birthDate).v,
                retirementAge |-> in.retirementAge]

\* lines 122-145: the field checks, in the order the code makes them; Null
\* when every field passes
fieldError(in) ==
  IF ~IsValidDate(in.birthDate) THEN Throw("TypeError", "birthDate")
  ELSE IF ~IsNumber(in.retirementAge) \/ ~IsFinite(in.retirementAge)
          \/ LeqZero(in.retirementAge)
    THEN Throw("RangeError", "retirementAge")
  ELSE IF in.retirementYear # Null
          /\ (~IsInteger(in.retirementYear) \/ in.retirementYear.v < in.birthDate.y)
    THEN Throw("RangeError", "retirementYear")
  ELSE IF ~IsNumber(in.annualReturnRate) \/ in.annualReturnRate.t = "nan"
    THEN Throw("TypeError", "annualReturnRate")
  ELSE IF ~IsArray(in.monthlyContributions) \/ Len(in.monthlyContributions.a) = 0
    THEN Throw("TypeError", "monthlyContributions")
  ELSE IF \E i \in 1 .. Len(in.monthlyContributions.a) :
            ~IsPositiveFinite(in.monthlyContributions.a[i])
    THEN Throw("RangeError", "scenario")
  ELSE Null

\* in: [birthDate, retirementAge, retirementYear, annualReturnRate,
\*      monthlyContributions, today]
simulateRetirementPlan(in) ==
  IF fieldError(in) # Null THEN fieldError(in) ELSE planOf(in)

(* ------------------------------------------------------------------ *)
(* src/index.js: the duplicate of parseISODate                        *)
(* ------------------------------------------------------------------ *)

parseFecha(iso) ==
  IF ~IsString(iso) THEN Null
  ELSE IF ~MatchesISOPattern(iso.s) THEN Null
  ELSE LET year == DigitsValue(SubSeq(iso.s, 1, 4))
           month == DigitsValue(SubSeq(iso.s, 6, 7)) - 1
           day == DigitsValue(SubSeq(iso.s, 9, 10))
           date == DateUTC(year, month, day)
       IN IF date.y # year \/ date.m # month \/ date.d # day THEN Null
          ELSE date

\* n <= 0 for any number n (false for NaN)
NumberLeqZero(n) ==
  IF n.t = "nan" \/ n.t = "inf" THEN FALSE
  ELSE IF n.t = "ninf" THEN TRUE
  ELSE LeqZero(n)

\* src/index.js lines 48-77; Date.UTC carries a day the month does not have
\* into the next month
mesesHastaEdad(fechaNacimiento, edadObjetivo, hoy) ==
  IF ~IsValidDate(fechaNacimiento) THEN Throw("TypeError", "fechaNacimiento")
  ELSE IF ~IsNumber(edadObjetivo) \/ NumberLeqZero(edadObjetivo)
  THEN Throw("TypeError", "edadObjetivo")
  ELSE LET anioObjetivo == fechaNacimiento.y + edadObjetivo.v
           fechaObjetivo ==
             DateUTC(anioObjetivo, fechaNacimiento.m, fechaNacimiento.d)
           hoyUTC == DateUTC(hoy.y, hoy.m, hoy.d)
           yearsDiff == fechaObjetivo.y - hoyUTC.y
           monthsDiff == fechaObjetivo.m - hoyUTC.m
           totalMonths == yearsDiff * 12 + monthsDiff
           adjusted == IF fechaObjetivo.d > hoyUTC.d
                       THEN (totalMonths - 1) + 1
                       ELSE totalMonths
       IN IF DateLE(fechaObjetivo, hoyUTC) THEN Num(0)
          ELSE Num(IF adjusted > 0 THEN adjusted ELSE 0)

\* src/index.js lines 85-89, called with numbers
fvAnualidadMensual(A, r, n) ==
  IF NumberLeqZero(n) THEN Num(0)
  ELSE IF r = Num(0) THEN Mul(A, n)
  ELSE Mul(A, Div(Sub(Pow(Add(Num(1), r), n.v), Num(1)), r))

(***************************************************************************)
(* src/retirement_calculator.js: the older calculator                      *)
(***************************************************************************)
\* line 42: const monthlyRate = annualRate / 12
futureValueMonthlyRate(annualRate) == Div(annualRate, Num(12))

\* lines 22-36, with `now` the clock date read at line 26; the dates are
\* read in local time, here with the process time zone UTC, where the local
\* fields of a parsed YYYY-MM-DD are its calendar fields
monthsUntilAge(birthDate, age, now) ==
  LET milestoneDate == DateUTC(birthDate.y + age.v, birthDate.m, birthDate.d)
      totalMonths ==
        (milestoneDate.y - now.y) * 12 + (milestoneDate.m - now.m)
  IN IF milestoneDate.d < now.d THEN Num(totalMonths - 1)
     ELSE Num(totalMonths)

\* lines 38-44, called with numbers, months an integer
futureValue(monthlyContribution, months, annualRate) ==
  IF NumberLeqZero(months) THEN Num(0)
  ELSE LET monthlyRate == futureValueMonthlyRate(annualRate)
       IN Mul(monthlyContribution,
              Div(Sub(Pow(Add(Num(1), monthlyRate), months.v), Num(1)),
                  monthlyRate))

(* ------------------------------------------------------------------ *)
(* Inputs of the calendar functions                                   *)
(* ------------------------------------------------------------------ *)

\* first year of the window of dates explored
FirstYear == 2023

\* the window holds FirstYear .. FirstYear + YearSpan
YearSpan == 1

\* largest number of years added or subtracted
MaxYears == 5

CalYears == FirstYear .. (FirstYear + YearSpan)

\* days of month explored: the first, a mid-month day and every month end
CalDays == {1, 15, 28, 29, 30, 31}

DatesOf(years, days) ==
  {dt \in {MkDate(y, m, d) : y \in years, m \in 0 .. 11, d \in days} :
     dt.d <= DaysInMonth(dt.y, dt.m)}

CalDates == DatesOf(CalYears, CalDays)

Min(a, b) == IF a <= b THEN a ELSE b

(* ------------------------------------------------------------------ *)
(* Calls of the calendar functions                                    *)
(* ------------------------------------------------------------------ *)

\* Each behaviour is one call: the functions are pure and keep no state from
\* one call to the next.  The initial state holds the function called and
\* its arguments (pc = "call"); the call's action computes what it returns or
\* throws (pc = "done").
\* IsXCall(a): a holds arguments of a call of X that the model explores
\* addYears with a whole number of years, and with a year count that is not
\* a whole number (n + 1/2, NaN, an infinity), then also on an invalid date
IsAddYearsCall(a) ==
  \/ \E date \in CalDates, n \in (0 - MaxYears) .. MaxYears :
       a = [date |-> date, years |-> Num(n)]
  \/ \E date \in CalDates \cup {InvalidDate},
        years \in {Frac(n) : n \in (0 - MaxYears) .. (MaxYears - 1)}
                   \cup {NaN, Infinity, NegInfinity} :
       a = [date |-> date, years |-> years]

IsMonthsBetweenDatesCall(a) ==
  \E start \in CalDates, end \in CalDates : a = [start |-> start, end |-> end]

IsCalculateAgeInYearsCall(a) ==
  \E referenceDate \in CalDates, birthDate \in CalDates :
    a = [referenceDate |-> referenceDate, birthDate |-> birthDate]

\* the milestone ages of the quick calculators (index.js line 143), birth
\* dates whose milestone falls in the window or the year after it, and the
\* clock dates of the window's first year
IsMesesHastaEdadCall(a) ==
  \E edadObjetivo \in {50, 55, 60, 65},
     hoy \in DatesOf({FirstYear}, {1, 15, 28}) :
    \E fechaNacimiento \in
         DatesOf((FirstYear - edadObjetivo) .. (FirstYear - edadObjetivo + 1),
                 {15, 29}) :
      a = [fechaNacimiento |-> fechaNacimiento,
           edadObjetivo |-> Num(edadObjetivo), hoy |-> hoy]

InitCalendar ==
  /\ pc = "call"
  /\ ret = Null
  /\ \/ op = "addYears" /\ IsAddYearsCall(args)
     \/ op = "monthsBetweenDates" /\ IsMonthsBetweenDatesCall(args)
     \/ op = "calculateAgeInYears" /\ IsCalculateAgeInYearsCall(args)
     \/ op = "mesesHastaEdad" /\ IsMesesHastaEdadCall(args)

Return(value) ==
  /\ pc = "call"
  /\ pc' = "done"
  /\ ret' = value
  /\ UNCHANGED <<op, args>>

CallAddYears ==
  /\ op = "addYears"
  /\ Return(addYears(args.date, args.years))

CallMonthsBetweenDates ==
  /\ op = "monthsBetweenDates"
  /\ Return(monthsBetweenDates(args.start, args.end))

CallCalculateAgeInYears ==
  /\ op = "calculateAgeInYears"
  /\ Return(calculateAgeInYears(args.referenceDate, args.birthDate))

CallMesesHastaEdad ==
  /\ op = "mesesHastaEdad"
  /\ Return(mesesHastaEdad(args.fechaNacimiento, args.edadObjetivo, args.hoy))

NextCalendar ==
  \/ CallAddYears
  \/ CallMonthsBetweenDates
  \/ CallCalculateAgeInYears
  \/ CallMesesHastaEdad

SpecCalendar == InitCalendar /\ [][NextCalendar]_vars

(* ------------------------------------------------------------------ *)
(* Calls of simulateRetirementPlan and of the functions it uses       *)
(* ------------------------------------------------------------------ *)

\* first birth year explored; births lie in FirstBirthYear .. + YearSpan
FirstBirthYear == 2000

\* retirement ages reach MaxAhead years past FirstYear - FirstBirthYear
MaxAhead == 2

BirthYears == FirstBirthYear .. (FirstBirthYear + YearSpan)

\* birthdays at a month's start and at the month ends
BirthDates == DatesOf(BirthYears, {1, 28, 29, 31})

\* a leap-day birth date at or before FirstBirthYear
LeapBirthDates ==
  {dt \in DatesOf((FirstBirthYear - 3) .. FirstBirthYear, {29}) : dt.m = 1}

\* retirement ages below, at and above the current ages that occur
Ages == (FirstYear - FirstBirthYear - 1) .. (FirstYear - FirstBirthYear + MaxAhead)

PlanInput(birthDate, today, retirementAge, retirementYear, annualReturnRate, monthlyContributions) ==
  [birthDate |-> birthDate,
   today |-> today,
   retirementAge |-> retirementAge,
   retirementYear |-> retirementYear,
   annualReturnRate |-> annualReturnRate,
   monthlyContributions |-> monthlyContributions]

\* every pair of a birth date and a reference date, every age
IsDateSweep(in) ==
  \E b \in BirthDates, t \in CalDates, a \in Ages :
    in = PlanInput(b, t, Num(a), Null, Num(0), Array(<<Num(3)>>))

\* the reference date is a birthday, for every day of every month
IsBirthdaySweep(in) ==
  \E b \in DatesOf(BirthYears, 1 .. 31), y \in CalYears, a \in Ages :
    /\ b.d <= DaysInMonth(y, b.m)
    /\ in = PlanInput(b, MkDate(y, b.m, b.d), Num(a), Null, Num(0),
                      Array(<<Num(5)>>))

SweepAges ==
  {Num(a) : a \in Ages} \cup
  {Num(0), Num(0 - 1), Frac(FirstYear - FirstBirthYear), NaN, Infinity, Null}

SweepYears ==
  {Num(y) : y \in (FirstYear - 1) .. (FirstYear + MaxAhead)} \cup
  {Null, Num(FirstBirthYear - 1), Frac(FirstYear + 1), NaN}

SweepRates ==
  {Num(IntPow(g, 12) - 1) : g \in GrowthFactors} \cup
  {Num(0 - 2), NaN, Infinity, NegInfinity, Null}

SweepContributions ==
  {Array(<<Num(3), Num(5), Num(8)>>), Array(<<Num(8), Num(3)>>), Array(<<>>),
   Null, Array(<<Num(3), Num(0)>>), Array(<<NaN, Num(5)>>)}

\* a few dates, every combination of the other fields
IsFieldSweep(in) ==
  \E b \in LeapBirthDates \cup {MkDate(FirstBirthYear + 1, 5, 15), InvalidDate},
     t \in {MkDate(FirstYear, 5, 15), MkDate(FirstYear, 1, 28)},
     a \in SweepAges, y \in SweepYears, r \in SweepRates,
     c \in SweepContributions :
    in = PlanInput(b, t, a, y, r, c)

\* the worked examples: 1990-06-15 seen from 2024-06-15 retiring at 65; a
\* retirement year of 2050 where birth date and age imply 2051
ExampleInputs ==
  {PlanInput(MkDate(1990, 5, 15), MkDate(2024, 5, 15), Num(65), Null, Num(0),
             Array(<<Num(500)>>)),
   PlanInput(MkDate(1986, 2, 10), MkDate(2024, 5, 15), Num(65), Num(2050),
             Num(0), Array(<<Num(300), Num(500), Num(800)>>))}

\* birth dates around the reference date, before and after it
IsFutureBirthSweep(in) ==
  \E b \in DatesOf(CalYears, {1, 15}), t \in DatesOf(CalYears, {1, 15}),
     a \in 1 .. MaxAhead :
    in = PlanInput(b, t, Num(a), Null, Num(0), Array(<<Num(3)>>))

IsSimulateRetirementPlanCall(in) ==
  \/ IsDateSweep(in)
  \/ IsBirthdaySweep(in)
  \/ IsFieldSweep(in)
  \/ IsFutureBirthSweep(in)
  \/ in \in ExampleInputs

\* longest period count passed to futureValueOfAnnuity directly
MaxPeriods == 12

IsFutureValueOfAnnuityCall(a) ==
  \E payment \in {Num(0 - 5), Num(0), Num(1), Num(3), Num(500), NaN, Infinity,
                   Null},
     monthlyRate \in {Num(0 - 2), Num(0 - 1), Num(0), Num(1), Num(2),
                      NaN, Infinity, NegInfinity, Null},
     periods \in {Num(n) : n \in (0 - 1) .. MaxPeriods} \cup
                 {Num(120), Frac(0 - 1), NaN, Infinity, Null} :
    a = [payment |-> payment, monthlyRate |-> monthlyRate, periods |-> periods]

\* fvAnualidadMensual is called with numbers, n an integer
IsFvAnualidadMensualCall(a) ==
  \E A \in {Num(0 - 5), Num(0), Num(3), Num(500), NaN, Infinity},
     r \in {Num(0 - 2), Num(0 - 1), Num(0), Num(1), Num(2), NaN, Infinity},
     n \in {Num(k) : k \in (0 - 1) .. MaxPeriods} \cup {Num(120)} :
    a = [A |-> A, r |-> r, n |-> n]

\* futureValue is called with a contribution, a month count and an annual
\* rate; the rates are the multiples of 12 the division by 12 is exact for
IsFutureValueCall(a) ==
  \E monthlyContribution \in {Num(0), Num(3), Num(500)},
     months \in {Num(k) : k \in (0 - 1) .. MaxPeriods},
     annualRate \in {Num(0), Num(12), Num(24)} :
    a = [monthlyContribution |-> monthlyContribution, months |-> months,
         annualRate |-> annualRate]

Init ==
  /\ pc = "call"
  /\ ret = Null
  /\ \/ op = "simulateRetirementPlan" /\ IsSimulateRetirementPlanCall(args)
     \/ op = "calculateAgeInYears" /\ IsCalculateAgeInYearsCall(args)
     \/ op = "futureValueOfAnnuity" /\ IsFutureValueOfAnnuityCall(args)
     \/ op = "fvAnualidadMensual" /\ IsFvAnualidadMensualCall(args)
     \/ op = "futureValue" /\ IsFutureValueCall(args)

CallSimulateRetirementPlan ==
  /\ op = "simulateRetirementPlan"
  /\ Return(simulateRetirementPlan(args))

CallFutureValueOfAnnuity ==
  /\ op = "futureValueOfAnnuity"
  /\ Return(futureValueOfAnnuity(args.payment, args.monthlyRate, args.periods))

CallFvAnualidadMensual ==
  /\ op = "fvAnualidadMensual"
  /\ Return(fvAnualidadMensual(args.A, args.r, args.n))

CallFutureValue ==
  /\ op = "futureValue"
  /\ Return(futureValue(args.monthlyContribution, args.months, args.annualRate))

Next ==
  \/ CallSimulateRetirementPlan
  \/ CallCalculateAgeInYears
  \/ CallFutureValueOfAnnuity
  \/ CallFvAnualidadMensual
  \/ CallFutureValue

Spec == Init /\ [][Next]_vars

(* ------------------------------------------------------------------ *)
(* Calls of parseISODate and parseFecha                               *)
(* ------------------------------------------------------------------ *)

\* years written in the texts: the ends of 0000..9999, both sides of 0099 /
\* 0100, century years and the window of dates
ParseYears == {0, 4, 50, 99, 100, 1900, 2000, 9999} \cup CalYears

\* the text YYYY-MM-DD of any three numbers, a calendar date or not
ISOText(y, m, d) ==
  PadDigits(y, 4) \o <<"-">> \o PadDigits(m, 2) \o <<"-">> \o PadDigits(d, 2)

ReplaceAt(s, i, c) == [s EXCEPT ![i] = c]

DeleteAt(s, i) == SubSeq(s, 1, i - 1) \o SubSeq(s, i + 1, Len(s))

InsertAt(s, i, c) == SubSeq(s, 1, i - 1) \o <<c>> \o SubSeq(s, i, Len(s))

\* texts of existing dates from which malformed texts are derived
BaseTexts == {ISOText(FirstYear, 6, 15)} \cup {toISODate(b).s : b \in LeapBirthDates}

OddChars == {"-", "/", " ", "x", "1"}

IsParseCall(a) ==
  \/ \E y \in ParseYears, m \in 0 .. 13, d \in 0 .. 32 :
       a = [input |-> Str(ISOText(y, m, d))]
  \/ \E base \in BaseTexts, i \in 1 .. 10, c \in OddChars :
       \/ a = [input |-> Str(ReplaceAt(base, i, c))]
       \/ a = [input |-> Str(DeleteAt(base, i))]
       \/ a = [input |-> Str(InsertAt(base, i, c))]
       \/ a = [input |-> Str(base \o <<c>>)]
  \/ \E v \in {Null, Num(20230615), MkDate(FirstYear, 5, 15), Str(<<>>),
               Array(<<>>)} :
       a = [input |-> v]

InitParse ==
  /\ pc = "call"
  /\ ret = Null
  /\ op \in {"parseISODate", "parseFecha"}
  /\ IsParseCall(args)

CallParseISODate ==
  /\ op = "parseISODate"
  /\ Return(parseISODate(args.input))

CallParseFecha ==
  /\ op = "parseFecha"
  /\ Return(parseFecha(args.input))

NextParse ==
  \/ CallParseISODate
  \/ CallParseFecha

SpecParse == InitParse /\ [][NextParse]_vars

(* ------------------------------------------------------------------ *)
(* Strings to numbers                                                 *)
(* ------------------------------------------------------------------ *)

\* the characters \s matches among those the model writes
IsSpace(c) == c = " "

\* s.trim()
RECURSIVE Trim(_)
Trim(s) ==
  IF Len(s) = 0 THEN s
  ELSE IF IsSpace(s[1]) THEN Trim(Tail(s))
  ELSE IF IsSpace(s[Len(s)]) THEN Trim(SubSeq(s, 1, Len(s) - 1))
  ELSE s

\* s.replace(/\s+/g, '')
RemoveSpaces(s) == SelectSeq(s, LAMBDA c : ~IsSpace(c))

\* s.replace(/,/g, '.')
CommasToPoints(s) == [i \in 1 .. Len(s) |-> IF s[i] = "," THEN "." ELSE s[i]]

\* index of the first "." of s, Len(s) + 1 when there is none
PointIndex(s) ==
  IF \E i \in 1 .. Len(s) : s[i] = "."
  THEN CHOOSE i \in 1 .. Len(s) : s[i] = "." /\ \A j \in 1 .. (i - 1) : s[j] # "."
  ELSE Len(s) + 1

\* the digits before and after the decimal point of s
IntegerDigits(s) == SubSeq(s, 1, PointIndex(s) - 1)

FractionDigits(s) == SubSeq(s, PointIndex(s) + 1, Len(s))

\* StrUnsignedDecimalLiteral without an exponent: digits, digits.digits,
\* digits. or .digits
IsDecimalLiteral(s) ==
  /\ AllDigits(IntegerDigits(s))
  /\ AllDigits(FractionDigits(s))
  /\ Len(IntegerDigits(s)) + Len(FractionDigits(s)) > 0

\* the fraction .f counted in halves: 0 or 1.  The model's numbers hold no
\* other fraction, and no text with another fraction is written.
Halves(f) == CHOOSE h \in {0, 1} : 2 * DigitsValue(f) = h * IntPow(10, Len(f))

DecimalValue(s) ==
  IF Halves(FractionDigits(s)) = 0 THEN Sat(DigitsValue(IntegerDigits(s)))
  ELSE Frac(DigitsValue(IntegerDigits(s)))

InfinityText == <<"I", "n", "f", "i", "n", "i", "t", "y">>

\* Number(s) of a string s: StringToNumber, decimal literals only
StringToNumber(str) ==
  LET s == Trim(str.s)
      signed == Len(s) > 0 /\ s[1] \in {"+", "-"}
      body == IF signed THEN Tail(s) ELSE s
      magnitude == IF body = InfinityText THEN Infinity
                   ELSE IF IsDecimalLiteral(body) THEN DecimalValue(body)
                   ELSE NaN
  IN IF Len(s) = 0 THEN Num(0)
     ELSE IF signed /\ s[1] = "-" THEN Neg(magnitude)
     ELSE magnitude

\* x < 0 for a finite number x
LtZero(x) == x.v < 0

(* ------------------------------------------------------------------ *)
(* src/unnamed/part_000 (App.jsx): the form                            *)
(* ------------------------------------------------------------------ *)

parseMoneyInput(value) ==
  IF ~IsString(value) THEN NaN
  ELSE LET trimmed == Trim(value.s)
           normalized == CommasToPoints(RemoveSpaces(trimmed))
           number == StringToNumber(Str(normalized))
       IN IF trimmed = <<>> THEN NaN
          ELSE IF IsFinite(number) THEN number ELSE NaN

\* lines 108-157: the values handleSubmit reads from the form
trimmedName(form) == Trim(form.name.s)

submittedBirthDate(form) == parseISODate(form.birthDate)

retirementAgeNumber(form) == StringToNumber(form.retirementAge)

retirementYearNumber(form) == StringToNumber(form.retirementYear)

averageReturnNumber(form) == parseMoneyInput(form.averageReturn)

currentSavingsNumber(form) ==
  IF Trim(form.currentSavings.s) = <<>> THEN Num(0)
  ELSE parseMoneyInput(form.currentSavings)

submittedContributions(form) ==
  [i \in 1 .. Len(form.contributions) |-> parseMoneyInput(form.contributions[i])]

When(condition, message) == IF condition THEN <<message>> ELSE <<>>

\* Number.isFinite(retirementAgeNumber) && retirementAgeNumber > 0
ageIsPositive(form) ==
  IsFinite(retirementAgeNumber(form)) /\ ~LeqZero(retirementAgeNumber(form))

\* lines 106-172: the messages pushed to validationErrors, in order
validationErrors(form, now) ==
  When(Len(trimmedName(form)) = 0, "name")
  \o (IF submittedBirthDate(form) = Null THEN <<"birthDate">>
      ELSE When(DateLT(DateUTC(now.y, now.m, now.d), submittedBirthDate(form)),
                "birthDateFuture"))
  \o (IF ~ageIsPositive(form) THEN <<"retirementAge">>
      ELSE When(~IsInteger(retirementAgeNumber(form)), "retirementAgeInteger"))
  \o When(~IsInteger(retirementYearNumber(form)), "retirementYearInteger")
  \o When(~IsFinite(averageReturnNumber(form)) \/ LtZero(averageReturnNumber(form)),
          "averageReturn")
  \o When(~IsFinite(currentSavingsNumber(form))
            \/ LtZero(currentSavingsNumber(form)),
          "currentSavings")
  \o SelectSeq([i \in 1 .. Len(form.contributions) |->
                  IF IsPositiveFinite(parseMoneyInput(form.contributions[i]))
                  THEN "" ELSE "scenario"],
               LAMBDA m : m # "")
  \o When(submittedBirthDate(form) # Null /\ ageIsPositive(form)
            /\ LeqInt(retirementAgeNumber(form),
                      calculateAgeInYears(now, submittedBirthDate(form)).v),
          "retirementAgeCurrent")
  \o When(submittedBirthDate(form) # Null /\ IsInteger(retirementYearNumber(form))
            /\ retirementYearNumber(form).v < now.y,
          "retirementYearCurrent")

\* lines 180-187: the argument of simulateRetirementPlan; `today` defaults to
\* new Date()
submittedPlanInput(form, now) ==
  PlanInput(submittedBirthDate(form), now, retirementAgeNumber(form),
            retirementYearNumber(form),
            Div(averageReturnNumber(form), Num(100)),
            Array(submittedContributions(form)))

\* handleSubmit without setResult(null) at line 175: a submit that fails
\* validation leaves the result as it was
handleSubmit_KeepsResult(form, now) ==
  IF Len(validationErrors(form, now)) > 0
  THEN [errors |-> validationErrors(form, now), result |-> ret.result]
  ELSE LET plan == simulateRetirementPlan(submittedPlanInput(form, now))
       IN IF IsThrow(plan) THEN [errors |-> <<plan.msg>>, result |-> Null]
          ELSE [errors |-> <<>>,
                result |-> [name |-> trimmedName(form), plan |-> plan]]

\* handleSubmit: the errors and the result it sets
handleSubmit(form, now) ==
  IF Len(validationErrors(form, now)) > 0
  THEN [errors |-> validationErrors(form, now), result |-> Null]
  ELSE LET plan == simulateRetirementPlan(submittedPlanInput(form, now))
       IN IF IsThrow(plan) THEN [errors |-> <<plan.msg>>, result |-> Null]
          ELSE [errors |-> <<>>,
                result |-> [name |-> trimmedName(form), plan |-> plan]]

(* ------------------------------------------------------------------ *)
(* src/unnamed/part_002 (lines 481-715): the command-line simulator   *)
(* ------------------------------------------------------------------ *)

\* the length of the longest prefix of s made of digits
RECURSIVE DigitPrefix(_)
DigitPrefix(s) ==
  IF Len(s) = 0 \/ ~IsDigit(s[1]) THEN 0 ELSE 1 + DigitPrefix(Tail(s))

\* parseInt(str, 10)
parseInt(str) ==
  LET s == Trim(str.s)
      signed == Len(s) > 0 /\ s[1] \in {"+", "-"}
      body == IF signed THEN Tail(s) ELSE s
      n == DigitPrefix(body)
  IN IF n = 0 THEN NaN
     ELSE IF signed /\ s[1] = "-" THEN Neg(Sat(DigitsValue(SubSeq(body, 1, n))))
     ELSE Sat(DigitsValue(SubSeq(body, 1, n)))

\* the prompt is printed again: the `continue` of a prompt's loop
Retry == [t |-> "retry"]

\* ask: the answer typed, trimmed
ask(answer) == Str(Trim(answer.s))

parsePositiveNumber(raw, allowZero) ==
  LET normalized == CommasToPoints(RemoveSpaces(raw.s))
      value == StringToNumber(Str(normalized))
  IN IF ~IsFinite(value) THEN Null
     ELSE IF (IF allowZero THEN LtZero(value) ELSE LeqZero(value)) THEN Null
     ELSE value

\* one round of each prompt: the value returned, or Retry
askName(typed) ==
  LET answer == ask(typed)
  IN IF Len(answer.s) = 0 THEN Retry ELSE answer

askBirthDate(typed, now) ==
  LET answer == ask(typed)
      date == parseISODate(answer)
      todayUTC == DateUTC(now.y, now.m, now.d)
  IN IF date = Null THEN Retry
     ELSE IF DateLT(todayUTC, date) THEN Retry
     ELSE date

askRetirementAge(birthDate, typed, now) ==
  LET currentAge == calculateAgeInYears(now, birthDate)
      answer == ask(typed)
      value == parseInt(answer)
  IN IF ~IsFinite(value) \/ LeqZero(value) THEN Retry
     ELSE IF LeqInt(value, currentAge.v) THEN Retry
     ELSE value

askRetirementYear(birthDate, retirementAge, typed, now) ==
  LET suggestedYear == addYears(birthDate, retirementAge).y
      answer == ask(typed)
      year == StringToNumber(answer)
  IN IF Trim(answer.s) = <<>> THEN Num(suggestedYear)
     ELSE IF ~IsInteger(year) THEN Retry
     ELSE IF year.v < now.y THEN Retry
     ELSE year

askAverageReturn(typed) ==
  LET answer == ask(typed)
      value == parsePositiveNumber(answer, TRUE)
  IN IF value = Null THEN Retry ELSE value

askScenarios(typed) ==
  LET values == [i \in 1 .. Len(typed) |-> parsePositiveNumber(ask(typed[i]), FALSE)]
  IN IF \E i \in 1 .. Len(typed) : values[i] = Null THEN Retry
     ELSE Array(values)

\* main with one answer typed at each prompt: the prompt that asks again, or
\* what is printed after the last prompt
main(answers, now) ==
  LET name == askName(answers.name)
      birthDate == askBirthDate(answers.birthDate, now)
      retirementAge == askRetirementAge(birthDate, answers.retirementAge, now)
      retirementYear ==
        askRetirementYear(birthDate, retirementAge, answers.retirementYear, now)
      averageReturnPercent == askAverageReturn(answers.averageReturn)
      monthlyContributions == askScenarios(answers.contributions)
      plan == simulateRetirementPlan(
                PlanInput(birthDate, now, retirementAge, retirementYear,
                          Div(averageReturnPercent, Num(100)),
                          monthlyContributions))
  IN IF name = Retry THEN [asks |-> "askName"]
     ELSE IF birthDate = Retry THEN [asks |-> "askBirthDate"]
     ELSE IF retirementAge = Retry THEN [asks |-> "askRetirementAge"]
     ELSE IF retirementYear = Retry THEN [asks |-> "askRetirementYear"]
     ELSE IF averageReturnPercent = Retry THEN [asks |-> "askAverageReturn"]
     ELSE IF monthlyContributions = Retry THEN [asks |-> "askScenarios"]
     ELSE IF IsThrow(plan) THEN [asks |-> "", error |-> plan.msg]
     ELSE [asks |-> "", name |-> name, plan |-> plan]

(* ------------------------------------------------------------------ *)
(* src/retirement_calculator.js: the interactive run                  *)
(* ------------------------------------------------------------------ *)

\* lines 14-20: the dates `new Date(input)` can give for a text typed, null
\* for an Invalid Date.  A text that is not YYYY-MM-DD (the empty text, a
\* word) gives an Invalid Date.  For a YYYY-MM-DD whose day its month does
\* not have the parser is free to reject the text or to carry the day into
\* the next month: both outcomes are kept.
parseBirthDate(input) ==
  IF ~MatchesISOPattern(input.s) THEN {Null}
  ELSE LET year == DigitsValue(SubSeq(input.s, 1, 4))
           month == DigitsValue(SubSeq(input.s, 6, 7))
           day == DigitsValue(SubSeq(input.s, 9, 10))
       IN IF month \notin 1 .. 12 \/ day \notin 1 .. 31 THEN {Null}
          ELSE IF day <= DaysInMonth(year, month - 1)
          THEN {MkDate(year, month - 1, day)}
          ELSE {Null, DateUTC(year, month - 1, day)}

\* lines 46-93 with the two answers typed and the date parsed from the
\* first: the error printed, or the line printed for each milestone.  The
\* default annualRate 0.1 of futureValue is no number of the model: the rate
\* 12 of IsFutureValueCall stands for it.
calculatorMain(birthDate, contributionInput, now) ==
  LET monthlyContribution ==
        StringToNumber(Str(CommasToPoints(contributionInput.s)))
      milestones == <<50, 55, 60, 65>>
      lineOf(age) ==
        LET monthsRemaining == monthsUntilAge(birthDate, Num(age), now)
            milestoneDate ==
              DateUTC(birthDate.y + age, birthDate.m, birthDate.d)
        IN IF monthsRemaining.v <= 0
           THEN [age |-> age,
                 says |-> IF DateLE(milestoneDate, now) THEN "Ya cumpliste"
                          ELSE "Cumples este mes"]
           ELSE [age |-> age, says |-> "Faltan", months |-> monthsRemaining,
                 value |-> futureValue(monthlyContribution, monthsRemaining,
                                       Num(12))]
  IN IF birthDate = Null THEN [asks |-> "", error |-> "birthDate"]
     ELSE IF monthlyContribution.t = "nan" \/ monthlyContribution.t = "ninf"
             \/ (IsFinite(monthlyContribution) /\ LtZero(monthlyContribution))
     THEN [asks |-> "", error |-> "monthlyContribution"]
     ELSE [asks |-> "",
           results |-> [i \in 1 .. Len(milestones) |-> lineOf(milestones[i])]]

(* ------------------------------------------------------------------ *)
(* Submissions of the form                                            *)
(* ------------------------------------------------------------------ *)

\* String(n) of an integer n >= 0
NumberText(n) == Str(PadDigits(n, 1))

Form(name, birthDate, retirementAge, retirementYear, averageReturn, currentSavings, contributions) ==
  [name |-> name,
   birthDate |-> birthDate,
   retirementAge |-> retirementAge,
   retirementYear |-> retirementYear,
   averageReturn |-> averageReturn,
   currentSavings |-> currentSavings,
   contributions |-> contributions]

\* the texts typed, into the form or at the prompts of the command-line
\* simulator, and the clock date at which they are read
Typed(texts, now) == [texts |-> texts, now |-> now]

GoodContributions == <<NumberText(3), NumberText(5), NumberText(8)>>

\* birth dates around the end of February against clock dates around it,
\* ages around the current age, the other fields acceptable
IsSubmitDateSweep(a) ==
  \E b \in {dt \in DatesOf(BirthYears, {28, 29}) : dt.m \in {1, 2}}
              \cup LeapBirthDates,
     now \in {dt \in DatesOf(CalYears, {1, 28, 29}) : dt.m \in {1, 2}},
     age \in Ages :
    a = Typed(Form(Str(<<"A">>), toISODate(b), NumberText(age),
                  NumberText(FirstYear + YearSpan), NumberText(0),
                  NumberText(0), GoodContributions),
             now)

SubmitBirthTexts ==
  {toISODate(b) : b \in LeapBirthDates}
    \cup {toISODate(MkDate(FirstBirthYear + 1, 5, 15)),
          toISODate(MkDate(FirstYear + YearSpan + 1, 0, 1)),
          Str(ISOText(FirstBirthYear + 1, 2, 30)),
          Str(<<>>)}

SubmitAgeTexts ==
  {NumberText(n) : n \in Ages \cup {0}}
    \cup {Str(<<>>), Str(<<"x">>), Str(<<"-", "1">>),
          Str(<<"2", "3", ".", "5">>), Str(<<" ", "2", "4", " ">>),
          Str(<<"2", "4", ".", "0">>), Str(InfinityText)}

SubmitYearTexts ==
  {NumberText(y) : y \in (FirstYear - 1) .. (FirstYear + YearSpan + 1)}
    \cup {Str(<<>>), Str(<<"x">>), Str(PadDigits(FirstYear, 1) \o <<".", "5">>)}

\* every birth date, age and year text
IsSubmitAgeSweep(a) ==
  \E b \in SubmitBirthTexts,
     now \in {MkDate(FirstYear, 1, 28), MkDate(FirstYear, 5, 15)},
     age \in SubmitAgeTexts, year \in SubmitYearTexts :
    a = Typed(Form(Str(<<"A">>), b, age, year, NumberText(0), NumberText(0),
                  GoodContributions),
             now)

\* every name, rate, savings and contribution text; the percentages are
\* those whose hundredth is a rate of SweepRates, and rejected texts
IsSubmitFieldSweep(a) ==
  \E b \in LeapBirthDates, now \in {MkDate(FirstYear, 5, 15)},
     age \in {FirstYear - FirstBirthYear + 1},
     name \in {Str(<<"A">>), Str(<<" ", "A", " ">>), Str(<<>>), Str(<<" ">>)},
     return \in {NumberText(0), NumberText(100 * (IntPow(2, 12) - 1)),
                 Str(<<"0", ",", "0">>), Str(<<"-", "1">>), Str(<<>>),
                 Str(<<"x">>)},
     savings \in {NumberText(0), NumberText(1000), Str(<<>>), Str(<<" ">>),
                  Str(<<"-", "1">>), Str(<<"x">>)},
     contributions \in
       {GoodContributions,
        <<NumberText(300), NumberText(500), NumberText(800)>>,
        <<NumberText(3), NumberText(0), NumberText(8)>>,
        <<Str(<<"x">>), NumberText(5), Str(<<>>)>>,
        <<Str(<<"1", " ", "0", "0", "0">>), Str(<<"5", ",", "0">>),
          NumberText(8)>>} :
    a = Typed(Form(name, toISODate(b), NumberText(age), NumberText(FirstYear),
                  return, savings, contributions),
             now)

IsTypedCall(a) ==
  \/ IsSubmitDateSweep(a)
  \/ IsSubmitAgeSweep(a)
  \/ IsSubmitFieldSweep(a)

InitFrontEnds ==
  /\ pc = "call"
  /\ ret = Null
  /\ op \in {"handleSubmit", "main", "calculatorMain"}
  /\ IsTypedCall(args)

CallHandleSubmit ==
  /\ op = "handleSubmit"
  /\ Return(handleSubmit(args.texts, args.now))

CallMain ==
  /\ op = "main"
  /\ Return(main(args.texts, args.now))

\* the two prompts are answered with the birth date and the first
\* contribution typed
CallCalculatorMain ==
  /\ op = "calculatorMain"
  /\ \E birthDate \in parseBirthDate(args.texts.birthDate) :
       Return(calculatorMain(birthDate, args.texts.contributions[1], args.now))

NextFrontEnds ==
  \/ CallHandleSubmit
  \/ CallMain
  \/ CallCalculatorMain

SpecFrontEnds == InitFrontEnds /\ [][NextFrontEnds]_vars

\* What the results view reads from `result` for the scenario shown: the
\* summary items (part_000 lines 196-222), the scenario detail (lines 385-411)
\* and the points ScenarioChart draws from its timeline and initialBalance
\* props (part_002 lines 72-84).  Reading a property an object does not hold
\* gives undefined.
resultsView(result, activeScenario) ==
  LET undefined == [t |-> "undefined"]
      Get(object, property) ==
        IF property \in DOMAIN object THEN object[property] ELSE undefined
      plan == result.plan
      activeScenarioData == plan.scenarios[activeScenario + 1]
      timeline == Get(activeScenarioData, "timeline")
      initialBalance == Get(plan, "initialSavings")
      baseBalance ==
        IF initialBalance.t \notin {"undefined", "null"} THEN initialBalance
        ELSE timeline.a[1].balance
  IN [retirementDate |-> toISODate(Get(plan, "targetDate")),
      expectedRetirementYear |-> Get(plan, "expectedRetirementYear"),
      duration |-> Get(plan, "duration"),
      monthsToRetirement |-> Get(plan, "monthsToRetirement"),
      currentAge |-> Get(plan, "currentAge"),
      retirementAge |-> Get(plan, "retirementAge"),
      initialSavings |-> initialBalance,
      monthlyContribution |-> Get(activeScenarioData, "monthlyContribution"),
      totalContributed |-> Get(activeScenarioData, "totalContributed"),
      valueAtRetirement |-> Get(activeScenarioData, "valueAtRetirement"),
      interestEarned |-> Get(activeScenarioData, "interestEarned"),
      points |->
        IF ~IsArray(timeline) \/ Len(timeline.a) = 0 THEN <<>>
        ELSE [i \in 1 .. Len(timeline.a) |->
                [monthIndex |-> timeline.a[i].monthIndex,
                 isRetirementMonth |-> Get(timeline.a[i], "isRetirementMonth"),
                 total |-> timeline.a[i].balance,
                 invested |-> Add(baseBalance, timeline.a[i].contributed)]]]

(* ------------------------------------------------------------------ *)
(* src/unnamed/part_000 (App.jsx): the form as it is edited           *)
(* ------------------------------------------------------------------ *)

\* In SpecForm the variables hold the state of the App component: args.texts
\* is `form`, ret.errors is `errors` and ret.result is `result`; args.now is
\* the clock date, args.events the handlers run so far (each with the field
\* and the text of an edit), op the handler run last.

\* lines 11-19
defaultForm ==
  Form(Str(<<>>), Str(<<>>), Str(<<>>), Str(<<>>), NumberText(6), NumberText(0),
       <<NumberText(300), NumberText(500), NumberText(800)>>)

\* handleFieldChange that never fills in the other field
handleFieldChange_NoDerive(prev, field, value) == [prev EXCEPT ![field] = value]

\* lines 47-87: the form after handleFieldChange(field) on an event whose
\* target holds `value`
handleFieldChange(prev, field, value) ==
  LET next == [prev EXCEPT ![field] = value]
      birthDate == parseISODate(IF field = "birthDate" THEN value
                                ELSE prev.birthDate)
      ageValue == StringToNumber(IF field = "retirementAge" THEN value
                                 ELSE prev.retirementAge)
      yearValue == StringToNumber(IF field = "retirementYear" THEN value
                                  ELSE prev.retirementYear)
      derivedAge == retirementAgeFromYear(birthDate, yearValue)
      targetDate == addYears(birthDate, ageValue)
      withYear ==
        [next EXCEPT !.retirementYear =
           IF IsValidDate(targetDate) THEN NumberText(targetDate.y)
           ELSE Str(<<"N", "a", "N">>)]
      withAge ==
        IF derivedAge # Null /\ ~LeqZero(derivedAge)
        THEN [next EXCEPT !.retirementAge = NumberText(derivedAge.v)]
        ELSE next
  IN IF birthDate = Null THEN next
     ELSE IF field = "birthDate" THEN
       (IF IsFinite(ageValue) /\ ~LeqZero(ageValue) THEN withYear
        ELSE IF IsInteger(yearValue) THEN withAge
        ELSE next)
     ELSE IF field = "retirementAge" THEN
       (IF IsFinite(ageValue) /\ ~LeqZero(ageValue) THEN withYear ELSE next)
     ELSE IF field = "retirementYear" THEN
       (IF IsInteger(yearValue) THEN withAge ELSE next)
     ELSE next

\* the most handlers run in one behaviour
MaxEvents == 3

FormBirthDate == MkDate(FirstBirthYear + 1, 5, 15)

\* a retirement age above the current age at the clock date of the form
FormAge == FirstYear - FirstBirthYear + 1

\* the texts typed into a field
FieldTexts(field) ==
  IF field = "name" THEN {Str(<<"A">>)}
  ELSE IF field = "birthDate" THEN {toISODate(FormBirthDate), Str(<<"x">>)}
  ELSE IF field = "retirementAge"
    THEN {NumberText(FormAge), NumberText(1), Str(<<"x">>),
          Str(PadDigits(FormAge - 1, 1) \o <<".", "5">>), NumberText(300000)}
  ELSE IF field = "retirementYear"
    THEN {NumberText(FormBirthDate.y + FormAge),
          NumberText(FormBirthDate.y + FormAge + 1),
          NumberText(FormBirthDate.y), Str(<<"x">>)}
  ELSE IF field = "averageReturn" THEN {NumberText(0)}
  ELSE {NumberText(1000)}

\* the component as mounted (line 38), or with a form typed before: every
\* field filled in, or every field but the birth date
InitForm ==
  /\ op = "App"
  /\ pc = "rendered"
  /\ ret = [errors |-> <<>>, result |-> Null]
  /\ \E texts \in
          {defaultForm,
           Form(Str(<<"A">>), toISODate(FormBirthDate), NumberText(FormAge),
                NumberText(FormBirthDate.y + FormAge), NumberText(0),
                NumberText(0), defaultForm.contributions),
           Form(Str(<<"A">>), Str(<<>>), NumberText(FormAge),
                NumberText(FormBirthDate.y + FormAge + 1), NumberText(0),
                NumberText(0), defaultForm.contributions)} :
       args = [texts |-> texts, now |-> MkDate(FirstYear, 5, 15), events |-> <<>>]

\* a handler runs and leaves `texts` in the form: the event is recorded with
\* the field and the text of an edit
Handled(handler, field, value, texts) ==
  /\ Len(args.events) < MaxEvents
  /\ op' = handler
  /\ pc' = pc
  /\ args' = [args EXCEPT !.texts = texts,
                          !.events = Append(@, <<handler, field, value>>)]

\* onChange of a field's input
ChangeField ==
  \E field \in {"name", "birthDate", "retirementAge", "retirementYear",
                "averageReturn", "currentSavings"} :
    \E value \in FieldTexts(field) :
      /\ Handled("handleFieldChange", field, value,
                 handleFieldChange(args.texts, field, value))
      /\ ret' = ret

\* onSubmit of the form; with no validation error the plan is computed only
\* for an average return the model holds the monthly rate of
SubmitForm ==
  /\ Handled("handleSubmit", "", Null, args.texts)
  /\ \/ validationErrors(args.texts, args.now) # <<>>
     \/ args.texts.averageReturn = NumberText(0)
  /\ ret' = handleSubmit(args.texts, args.now)

\* lines 98-103
resetForm ==
  /\ Handled("resetForm", "", Null, defaultForm)
  /\ ret' = [errors |-> <<>>, result |-> Null]

NextForm ==
  \/ ChangeField
  \/ SubmitForm
  \/ resetForm

SpecForm == InitForm /\ [][NextForm]_vars

(* ------------------------------------------------------------------ *)
(* Calendar claims                                                    *)
(* ------------------------------------------------------------------ *)

\* `start` advanced by k calendar months: the same day of the k-th following
\* month, or that month's last day when it has no such day.
AdvanceMonths(start, k) ==
  LET total == start.m + k
      y == start.y + (total \div 12)
      m == total % 12
  IN MkDate(y, m, Min(start.d, DaysInMonth(y, m)))

\* the largest k >= 0 such that start advanced by k months is still <= end
WholeMonths(start, end) ==
  CHOOSE k \in 0 .. (12 * (YearSpan + 2)) :
    /\ DateLE(AdvanceMonths(start, k), end)
    /\ ~DateLE(AdvanceMonths(start, k + 1), end)

\* C1: for start < end, monthsBetweenDates(start, end) is the number of whole
\* calendar months elapsed from start to end (the largest k such that start
\* advanced by k calendar months is still <= end); a trailing partial month is
\* not counted.
C1_WholeMonthsElapsed ==
  (pc = "done" /\ op = "monthsBetweenDates" /\ DateLT(args.start, args.end))
    => ret = Num(WholeMonths(args.start, args.end))

\* C2: for a valid date d and an integer n, addYears(d, n) is the date with
\* year d.year + n and the month and day of d, except that Feb 29 moved to a
\* non-leap year gives Feb 28 of that year (never Mar 1); the result is a
\* valid date in the month of d.
C2_AddYearsClamp ==
  (pc = "done" /\ op = "addYears" /\ IsInteger(args.years)) =>
    LET d == args.date
        y == d.y + args.years.v
    IN /\ IsValidDate(ret)
       /\ ret.m = d.m
       /\ ret.d <= DaysInMonth(ret.y, ret.m)
       /\ ret = IF d.m = 1 /\ d.d = 29 /\ ~IsLeap(y)
                THEN MkDate(y, 1, 28)
                ELSE MkDate(y, d.m, d.d)

\* C2 witness: a Feb 29 was moved to a non-leap year and came out as Feb 28.
C2_Witness ==
  /\ pc = "done" /\ op = "addYears"
  /\ args.date.m = 1 /\ args.date.d = 29
  /\ args.years.v # 0
  /\ ~IsLeap(args.date.y + args.years.v)
  /\ ret = MkDate(args.date.y + args.years.v, 1, 28)

(* ------------------------------------------------------------------ *)
(* Claims about simulateRetirementPlan                                *)
(* ------------------------------------------------------------------ *)

Simulated == pc = "done" /\ op = "simulateRetirementPlan"

PastTargetDate == Throw("RangeError", "future")

\* the annual rate is a finite number >= -1
RateInRange(in) ==
  IsFinite(in.annualReturnRate) /\ ~LeqInt(in.annualReturnRate, 0 - 2)

\* reference.year - birth.year, minus one when (reference.month,
\* reference.day) is lexicographically smaller than (birth.month, birth.day)
ExpectedAge(reference, birth) ==
  (reference.y - birth.y)
    - (IF <<reference.m, reference.d>> \in
            {<<m, d>> \in (0 .. 11) \X (1 .. 31) :
               m < birth.m \/ (m = birth.m /\ d < birth.d)}
       THEN 1 ELSE 0)

\* C3: simulateRetirementPlan fails with the past-target-date error exactly
\* when the fields are valid and addYears(birthDate, retirementAge) is on or
\* before the reference date; every plan returned has monthsToRetirement >= 1
\* and a targetDate strictly after the reference date.
C3_PastTargetDate ==
  Simulated =>
    /\ (ret = PastTargetDate) <=>
         (/\ fieldError(args) = Null
          /\ DateLE(addYears(args.birthDate, args.retirementAge), args.today))
    /\ ret.t = "plan" =>
         (ret.monthsToRetirement >= 1 /\ DateLT(args.today, ret.targetDate))

\* C3 witness: the target date is exactly the reference date and the call
\* failed with the past-target-date error.
C3_Witness ==
  /\ Simulated
  /\ fieldError(args) = Null
  /\ addYears(args.birthDate, args.retirementAge) = args.today
  /\ ret = PastTargetDate

\* C5: no plan has a retirementAge that is not strictly greater than its
\* currentAge; every call with a finite retirementAge <= the current age
\* ends in an error.
C5_AgeAboveCurrentAge ==
  Simulated =>
    /\ ret.t = "plan" => ~LeqInt(ret.retirementAge, ret.currentAge)
    /\ (/\ IsValidDate(args.birthDate)
        /\ IsNumber(args.retirementAge) /\ IsFinite(args.retirementAge)
        /\ LeqInt(args.retirementAge, ExpectedAge(args.today, args.birthDate)))
         => IsThrow(ret)

\* C5 witness: valid fields, a retirement age equal to the current age, and
\* the call ended in an error.
C5_Witness ==
  /\ Simulated
  /\ fieldError(args) = Null
  /\ args.retirementAge = Num(ExpectedAge(args.today, args.birthDate))
  /\ args.today # addYears(args.birthDate, args.retirementAge)
  /\ IsThrow(ret)

\* C6: for valid fields, the plan's yearMismatch is {expected: year of
\* targetDate, provided: retirementYear} exactly when a retirementYear was
\* given and differs from the year of targetDate, and null otherwise; the
\* call fails with a mismatching year exactly when it fails without a year.
C6_YearMismatchAdvisory ==
  (Simulated /\ fieldError(args) = Null) =>
    /\ ret.t = "plan" =>
         ret.yearMismatch =
           IF args.retirementYear # Null
              /\ args.retirementYear.v # ret.targetDate.y
           THEN [t |-> "mismatch",
                 expected |-> ret.targetDate.y,
                 provided |-> args.retirementYear.v]
           ELSE Null
    /\ IsThrow(ret) <=>
         IsThrow(simulateRetirementPlan([args EXCEPT !.retirementYear = Null]))

\* C6 witness: retirement year 2050 given where birth date and age imply
\* 2051; a plan came back with both years in yearMismatch.
C6_Witness ==
  /\ Simulated
  /\ args.retirementYear = Num(2050)
  /\ ret.t = "plan"
  /\ ret.yearMismatch = [t |-> "mismatch", expected |-> 2051, provided |-> 2050]
  /\ Len(ret.scenarios) = 3

\* C8: calculateAgeInYears(reference, birth) is reference.year - birth.year,
\* minus 1 exactly when (reference.month, reference.day) is lexicographically
\* smaller than (birth.month, birth.day); a plan's currentAge is this value
\* for (today, birthDate).
C8_AgeInYears ==
  /\ (pc = "done" /\ op = "calculateAgeInYears") =>
       ret = Num(ExpectedAge(args.referenceDate, args.birthDate))
  /\ (Simulated /\ ret.t = "plan") =>
       ret.currentAge = ExpectedAge(args.today, args.birthDate)

\* C8 witness: a plan whose reference date lies in the birth month before
\* the birthday, so that the year difference was reduced by one.
C8_Witness ==
  /\ Simulated
  /\ ret.t = "plan"
  /\ args.today.m = args.birthDate.m
  /\ args.today.d < args.birthDate.d
  /\ ret.currentAge = args.today.y - args.birthDate.y - 1

\* C9: when the reference date has the month and day of the birth date and
\* retirementAge is an integer above the current age, the plan has
\* currentAge = reference.year - birth.year and
\* monthsToRetirement = 12 * (retirementAge - currentAge).
C9_BirthdayReference ==
  (/\ Simulated
   /\ fieldError(args) = Null
   /\ RateInRange(args)
   /\ args.today.m = args.birthDate.m
   /\ args.today.d = args.birthDate.d
   /\ IsInteger(args.retirementAge)
   /\ args.retirementAge.v > args.today.y - args.birthDate.y) =>
    /\ ret.t = "plan"
    /\ ret.currentAge = args.today.y - args.birthDate.y
    /\ ret.monthsToRetirement = 12 * (args.retirementAge.v - ret.currentAge)

\* C9 witness: birth 1990-06-15, reference 2024-06-15, age 65: current age
\* 34, target date 2055-06-15, 372 months.
C9_Witness ==
  /\ Simulated
  /\ args.birthDate = MkDate(1990, 5, 15)
  /\ args.today = MkDate(2024, 5, 15)
  /\ args.retirementAge = Num(65)
  /\ ret.t = "plan"
  /\ ret.currentAge = 34
  /\ ret.targetDate = MkDate(2055, 5, 15)
  /\ ret.monthsToRetirement = 372

\* C10: futureValueOfAnnuity(p, 0, n) = p * n for every payment p and n > 0;
\* a plan with annualReturnRate = 0 has monthlyRate = 0 and, in every
\* scenario, futureValue = totalContributed and interestEarned = 0.
C10_ZeroRate ==
  /\ (/\ pc = "done" /\ op = "futureValueOfAnnuity"
      /\ args.monthlyRate = Num(0)
      /\ IsNumber(args.payment) /\ IsFinite(args.payment)
      /\ IsInteger(args.periods) /\ args.periods.v > 0) =>
       ret = Num(args.payment.v * args.periods.v)
  /\ (Simulated /\ ret.t = "plan" /\ args.annualReturnRate = Num(0)) =>
       /\ ret.monthlyRate = Num(0)
       /\ \A i \in 1 .. Len(ret.scenarios) :
            /\ ret.scenarios[i].futureValue = ret.scenarios[i].totalContributed
            /\ ret.scenarios[i].futureValue =
                 Num(args.monthlyContributions.a[i].v * ret.monthsToRetirement)
            /\ ret.scenarios[i].interestEarned = Num(0)

\* C10 witness: 500 per month for 120 months at rate 0 gave 60000.
C10_Witness ==
  /\ pc = "done" /\ op = "futureValueOfAnnuity"
  /\ args = [payment |-> Num(500), monthlyRate |-> Num(0), periods |-> Num(120)]
  /\ ret = Num(60000)

(* ------------------------------------------------------------------ *)
(* Claims about parseISODate and parseFecha                           *)
(* ------------------------------------------------------------------ *)

\* the text is YYYY-MM-DD and names an existing calendar date
NamesCalendarDate(input) ==
  /\ IsString(input)
  /\ Len(input.s) = 10
  /\ AllDigits(SubSeq(input.s, 1, 4))
  /\ LET y == DigitsValue(SubSeq(input.s, 1, 4))
     IN \E m \in 1 .. 12 :
          \E d \in 1 .. DaysInMonth(y, m - 1) : input.s = ISOText(y, m, d)

\* C7: parseISODate and parseFecha return a date exactly when the text is
\* YYYY-MM-DD and names an existing calendar date of a year 0000..9999; the
\* date returned formats back to the text; every other input gives null, and
\* no input makes them throw.
C7_ParseISODateIff ==
  (pc = "done" /\ op \in {"parseISODate", "parseFecha"}) =>
    /\ IsValidDate(ret) <=> NamesCalendarDate(args.input)
    /\ IsValidDate(ret) => toISODate(ret) = args.input
    /\ ~IsValidDate(ret) => ret = Null

(* ------------------------------------------------------------------ *)
(* Claims about the form's validation                                 *)
(* ------------------------------------------------------------------ *)

Submitted == pc = "done" /\ op = "handleSubmit"

\* C4: when a submission passes every check of handleSubmit, or every answer
\* is accepted by its prompt of the command-line simulator, at the same clock
\* date, simulateRetirementPlan returns a plan and does not throw: a result
\* is shown and no error.
C4_ValidatedInputsNeverFail ==
  /\ (Submitted /\ validationErrors(args.texts, args.now) = <<>>) =>
       /\ ~IsThrow(simulateRetirementPlan(submittedPlanInput(args.texts, args.now)))
       /\ ret.result # Null
       /\ ret.errors = <<>>
  /\ (pc = "done" /\ op = "main" /\ ret.asks = "") =>
       "plan" \in DOMAIN ret

(* ------------------------------------------------------------------ *)
(* Claims about the annuity value                                     *)
(* ------------------------------------------------------------------ *)

\* C11: futureValueOfAnnuity (and fvAnualidadMensual) returns 0 for every
\* periods <= 0 whatever payment and monthlyRate are, values that would
\* otherwise be rejected included; a non-positive period count is never
\* reported as an error.
C11_NonPositivePeriods ==
  /\ (/\ pc = "done" /\ op = "futureValueOfAnnuity"
      /\ IsNumber(args.periods) /\ NumberLeqZero(args.periods)) => ret = Num(0)
  /\ (pc = "done" /\ op = "fvAnualidadMensual" /\ NumberLeqZero(args.n)) =>
       ret = Num(0)

\* the balance after n periods of one unit paid at the end of each period,
\* every balance growing by the factor 1 + r per period: one more period
\* multiplies the balance by 1 + r and adds a unit, and the balance after 2k
\* periods is the balance after k periods grown for k periods, plus the
\* balance after k periods
RECURSIVE UnitBalance(_, _)
UnitBalance(r, n) ==
  IF n = 0 THEN Num(0)
  ELSE IF n % 2 = 1
    THEN Add(Mul(UnitBalance(r, n - 1), Add(Num(1), r)), Num(1))
  ELSE Add(Mul(UnitBalance(r, n \div 2), Pow(Add(Num(1), r), n \div 2)),
           UnitBalance(r, n \div 2))

\* a call futureValueOfAnnuity(p, r, n) with finite p, r # 0 and an integer
\* n >= 1 whose power (1 + r)^n stays finite
AnnuityCall ==
  /\ pc = "done" /\ op = "futureValueOfAnnuity"
  /\ IsNumber(args.payment) /\ IsInteger(args.payment)
  /\ IsNumber(args.monthlyRate) /\ IsInteger(args.monthlyRate)
  /\ args.monthlyRate # Num(0)
  /\ IsNumber(args.periods) /\ IsInteger(args.periods)
  /\ args.periods.v >= 1
  /\ IsFinite(Pow(Add(Num(1), args.monthlyRate), args.periods.v))

\* C12: for every payment p, rate r # 0 and integer n >= 1,
\* futureValueOfAnnuity(p, r, n) is the balance of an ordinary annuity, with
\* payments at the end of each period: it is p for n = 1, and for n + 1 it is
\* the value for n times (1 + r), plus p.
C12_OrdinaryAnnuity ==
  AnnuityCall =>
    /\ ret = Mul(args.payment, UnitBalance(args.monthlyRate, args.periods.v))
    /\ args.periods.v = 1 => ret = args.payment
    /\ args.periods.v > 1 =>
         ret = Add(Mul(futureValueOfAnnuity(args.payment, args.monthlyRate,
                                            Num(args.periods.v - 1)),
                       Add(Num(1), args.monthlyRate)),
                   args.payment)

\* C12 witness: 3 per period at rate 1 (100%) for 4 periods gave
\* 3 * (1 + 2 + 4 + 8) = 45.
C12_Witness ==
  /\ AnnuityCall
  /\ args = [payment |-> Num(3), monthlyRate |-> Num(1), periods |-> Num(4)]
  /\ ret = Num(45)

\* the monthly rate m compounds to the annual rate a: (1 + m)^12 = 1 + a
CompoundsTo(m, a) == Pow(Add(Num(1), m), 12) = Add(Num(1), a)

\* C13: in every calculator the monthly rate is the geometric one, with
\* (1 + monthlyRate)^12 = 1 + annualRate, never the linear annualRate / 12:
\* in the plans of simulateRetirementPlan and in futureValue of
\* retirement_calculator.js.
C13_GeometricMonthlyRate ==
  /\ (Simulated /\ ret.t = "plan") =>
       CompoundsTo(ret.monthlyRate, args.annualReturnRate)
  /\ (pc = "done" /\ op = "futureValue" /\ ~NumberLeqZero(args.months)) =>
       CompoundsTo(futureValueMonthlyRate(args.annualRate), args.annualRate)

(***************************************************************************)
(* Claims about the plan                                                   *)
(***************************************************************************)
\* C14: every plan returned by simulateRetirementPlan has exactly one
\* scenario per input contribution, in input order: scenario i has id i (from
\* 0), monthlyContribution = monthlyContributions[i], totalContributed =
\* monthlyContributions[i] * monthsToRetirement and interestEarned =
\* futureValue - totalContributed, every scenario valued over the plan's
\* monthsToRetirement at the plan's monthlyRate.
C14_ScenarioPerContribution ==
  (Simulated /\ ret.t = "plan") =>
    /\ Len(ret.scenarios) = Len(args.monthlyContributions.a)
    /\ \A i \in 1 .. Len(ret.scenarios) :
         LET scenario == ret.scenarios[i]
             contribution == args.monthlyContributions.a[i]
         IN /\ scenario.id = i - 1
            /\ scenario.monthlyContribution = contribution
            /\ scenario.totalContributed =
                 Mul(contribution, Num(ret.monthsToRetirement))
            /\ scenario.interestEarned =
                 Sub(scenario.futureValue, scenario.totalContributed)
            /\ scenario.futureValue =
                 futureValueOfAnnuity(contribution, ret.monthlyRate,
                                      Num(ret.monthsToRetirement))

\* C14 witness: a plan for the contributions 8, 3, in that order, at a rate
\* other than 0, with interest earned on both.
C14_Witness ==
  /\ Simulated /\ ret.t = "plan"
  /\ args.monthlyContributions = Array(<<Num(8), Num(3)>>)
  /\ ret.monthlyRate # Num(0)
  /\ ret.scenarios[1].monthlyContribution = Num(8)
  /\ ret.scenarios[2].monthlyContribution = Num(3)
  /\ ret.scenarios[2].id = 1
  /\ ret.scenarios[1].interestEarned # Num(0)

(***************************************************************************)
(* Claims about the calendar functions                                     *)
(***************************************************************************)
MonthsCounted == pc = "done" /\ op = "monthsBetweenDates"

\* the dates of the window from end to the last day of the month after
\* end's: among them is the date of the window that follows end, so that
\* comparing every end with these dates compares every two ends in turn
DatesFollowing(end) ==
  {later \in CalDates :
     /\ DateLE(end, later)
     /\ (later.y * 12 + later.m) - (end.y * 12 + end.m) <= 1}

\* C15: monthsBetweenDates(d, d) = 0 for every date d;
\* monthsBetweenDates(start, end) = 0 whenever end <= start; the result is
\* never negative; and for a fixed start the result does not decrease as end
\* moves later (from each end to the dates that follow it, hence along the
\* whole window).
C15_MonthsMonotone ==
  MonthsCounted =>
    /\ ret.t = "num" /\ ret.v >= 0
    /\ DateLE(args.end, args.start) => ret = Num(0)
    /\ monthsBetweenDates(args.start, args.start) = Num(0)
    /\ \A later \in DatesFollowing(args.end) :
         ret.v <= monthsBetweenDates(args.start, later).v

\* C15 witness: an end after the start with a positive count, and a later
\* end in the window with a larger count still.
C15_Witness ==
  /\ MonthsCounted
  /\ DateLT(args.start, args.end)
  /\ ret.v > 0
  /\ \E later \in CalDates :
       /\ DateLT(args.end, later)
       /\ ret.v < monthsBetweenDates(args.start, later).v

YearsAdded == pc = "done" /\ op = "addYears" /\ IsInteger(args.years)

\* the date is a Feb 29 and the year n years away is not a leap year
ClampBoundary(d, n) == d.m = 1 /\ d.d = 29 /\ ~IsLeap(d.y + n)

\* C16: for every valid date d and integer n, addYears(addYears(d, n), -n)
\* is d, except when d is Feb 29 and the year d.year + n is not a leap year,
\* where it is Feb 28 of d.year.
C16_AddYearsRoundTrip ==
  YearsAdded =>
    addYears(ret, Num(0 - args.years.v)) =
      IF ClampBoundary(args.date, args.years.v)
      THEN MkDate(args.date.y, 1, 28)
      ELSE args.date

\* C16 witness: a Feb 29 was moved to a non-leap year, where it became
\* Feb 28, and moving it back gives Feb 28 of the first year.
C16_Witness ==
  /\ YearsAdded
  /\ ClampBoundary(args.date, args.years.v)
  /\ args.years.v # 0
  /\ ret = MkDate(args.date.y + args.years.v, 1, 28)
  /\ addYears(ret, Num(0 - args.years.v)) = MkDate(args.date.y, 1, 28)

(***************************************************************************)
(* Claims about the field checks of simulateRetirementPlan                 *)
(***************************************************************************)
AgeError == Throw("RangeError", "retirementAge")

\* the age is an integer > 0
IsPositiveInteger(age) == IsNumber(age) /\ IsInteger(age) /\ age.v > 0

\* the fields other than retirementAge pass their checks and the rate is one
\* that plans are computed for
OtherThanAgeValid ==
  /\ fieldError([args EXCEPT !.retirementAge = Num(1)]) = Null
  /\ RateInRange(args)

\* C17: simulateRetirementPlan rejects with an age error, and returns no
\* plan, every retirementAge that is not a positive integer: zero, negative,
\* non-finite, and positive non-integer values such as 65.5.  Stated for the
\* calls whose other fields are valid, where no other error comes first; the
\* error for a target date that is not in the future counts as an age error.
C17_AgeIsPositiveInteger ==
  (Simulated /\ OtherThanAgeValid /\ ~IsPositiveInteger(args.retirementAge)) =>
    ret \in {AgeError, PastTargetDate}

\* C18: simulateRetirementPlan called with a birthDate later than the
\* reference date fails with an error and returns no plan; no plan with a
\* negative currentAge is ever produced.
C18_FutureBirthDate ==
  Simulated =>
    /\ (/\ IsValidDate(args.birthDate)
        /\ DateLT(args.today, args.birthDate)) => IsThrow(ret)
    /\ ret.t = "plan" => ret.currentAge >= 0

YearError == Throw("RangeError", "retirementYear")

\* the fields other than retirementYear pass their checks
OtherThanYearValid == fieldError([args EXCEPT !.retirementYear = Null]) = Null

\* C19: simulateRetirementPlan rejects with a year error, and returns no
\* plan, every supplied retirementYear that is not an integer, that precedes
\* the birth year, or that precedes the year of the reference date.  Stated
\* for the calls whose other fields are valid.
C19_YearIsValid ==
  (/\ Simulated /\ OtherThanYearValid
   /\ args.retirementYear # Null
   /\ \/ ~IsInteger(args.retirementYear)
      \/ args.retirementYear.v < args.birthDate.y
      \/ args.retirementYear.v < args.today.y) =>
    ret = YearError

\* what the same call returns or throws at the annual rate 0
AtZeroRate == simulateRetirementPlan([args EXCEPT !.annualReturnRate = Num(0)])

\* C20: simulateRetirementPlan returns a plan only when annualReturnRate is a
\* finite number >= -1: for NaN, +Infinity, -Infinity and every rate below -1
\* the call ends in an error and no plan; for every finite rate >= -1, -1 and
\* 0 included, the call does not fail because of the rate: it fails exactly
\* when the same call at rate 0 fails, and with the same error.
C20_RateFiniteAboveFloor ==
  Simulated =>
    /\ ret.t = "plan" => RateInRange(args)
    /\ (IsNumber(args.annualReturnRate) /\ ~RateInRange(args)) => IsThrow(ret)
    /\ (/\ IsNumber(args.annualReturnRate) /\ RateInRange(args)
        /\ args.annualReturnRate # Num(0)) =>
         IF IsThrow(ret) THEN ret = AtZeroRate ELSE ~IsThrow(AtZeroRate)

\* C20 witness: a plan was returned at the rate -1 (monthly rate -1), and
\* the same call would be refused at the rate -2.
C20_Witness ==
  /\ Simulated
  /\ args.annualReturnRate = Num(0 - 1)
  /\ ret.t = "plan" /\ ret.monthlyRate = Num(0 - 1)
  /\ IsThrow(simulateRetirementPlan([args EXCEPT !.annualReturnRate = Num(0 - 2)]))
  /\ IsThrow(simulateRetirementPlan([args EXCEPT !.annualReturnRate = Infinity]))

\* the fields of a request that fail their check of lines 122-145
InvalidFields(in) ==
  {f \in {"birthDate", "retirementAge", "retirementYear", "annualReturnRate",
          "monthlyContributions"} :
     \/ f = "birthDate" /\ ~IsValidDate(in.birthDate)
     \/ f = "retirementAge"
          /\ (~IsNumber(in.retirementAge) \/ ~IsFinite(in.retirementAge)
              \/ LeqZero(in.retirementAge))
     \/ f = "retirementYear" /\ in.retirementYear # Null
          /\ (~IsInteger(in.retirementYear)
              \/ (IsValidDate(in.birthDate)
                  /\ in.retirementYear.v < in.birthDate.y))
     \/ f = "annualReturnRate"
          /\ (~IsNumber(in.annualReturnRate) \/ in.annualReturnRate.t = "nan")
     \/ f = "monthlyContributions"
          /\ (~IsArray(in.monthlyContributions)
              \/ Len(in.monthlyContributions.a) = 0
              \/ \E i \in 1 .. Len(in.monthlyContributions.a) :
                   ~IsPositiveFinite(in.monthlyContributions.a[i]))}

\* C21: when a request has two or more invalid fields at once,
\* simulateRetirementPlan called directly reports one error for every invalid
\* field in a single list rather than stopping at the first.
C21_EveryInvalidFieldReported ==
  (Simulated /\ Cardinality(InvalidFields(args)) >= 2) =>
    /\ ret.t = "errors"
    /\ Len(ret.errors) = Cardinality(InvalidFields(args))

(***************************************************************************)
(* Claims about the form                                                   *)
(***************************************************************************)
\* the fields of the value simulateRetirementPlan returns (lines 183-194)
PlanFields ==
  {"targetDate", "expectedRetirementYear", "monthsToRetirement", "duration",
   "scenarios", "monthlyRate", "annualReturnRate", "yearMismatch",
   "currentAge", "retirementAge"}

\* the result holds a name and a plan with every field of PlanFields and one
\* scenario for each contribution of the form
IsShownPlan(result) ==
  /\ result # Null
  /\ result.plan.t = "plan"
  /\ PlanFields \subseteq DOMAIN result.plan
  /\ Len(result.plan.scenarios) = Len(args.texts.contributions)

\* the form with every field filled in so that a submit gives a plan
CompleteForm ==
  Form(Str(<<"A">>), toISODate(FormBirthDate), NumberText(FormAge),
       NumberText(FormBirthDate.y + FormAge), NumberText(0), NumberText(0),
       defaultForm.contributions)

\* C22: after any sequence of field edits, submits and resets the state
\* never holds a non-empty error list together with a non-null result; each
\* submit ends with either (errors non-empty, result null) or (errors empty,
\* result a fully populated plan), so that a failed submit discards a plan
\* shown before; reset yields errors empty, result null and the default form.
C22_ErrorsOrResult ==
  /\ ~(ret.errors # <<>> /\ ret.result # Null)
  /\ op = "handleSubmit" =>
       \/ ret.errors # <<>> /\ ret.result = Null
       \/ ret.errors = <<>> /\ IsShownPlan(ret.result)
  /\ op = "resetForm" =>
       ret.errors = <<>> /\ ret.result = Null /\ args.texts = defaultForm

\* C22 witness: the complete form was submitted (which gives a plan), its
\* retirement age was then edited to "x", and the second submit left an error
\* list and no result.
C22_Witness ==
  /\ Len(args.events) = 3
  /\ args.events[1][1] = "handleSubmit"
  /\ args.events[2] = <<"handleFieldChange", "retirementAge", Str(<<"x">>)>>
  /\ args.events[3][1] = "handleSubmit"
  /\ args.texts = [CompleteForm EXCEPT !.retirementAge = Str(<<"x">>)]
  /\ IsShownPlan(handleSubmit(CompleteForm, args.now).result)
  /\ ret.errors # <<>> /\ ret.result = Null

\* a submit has just shown a plan
PlanShown == op = "handleSubmit" /\ ret.result # Null

\* C23: for a plan and one chosen scenario, the timeline drawn is the
\* sequence of exactly monthsToRetirement + 1 points with monthIndex 0, 1,
\* ..., monthsToRetirement; the balance at month 0 is the initial savings,
\* each later balance is the previous one compounded by monthlyRate plus one
\* contribution, the amount contributed at month k is k times the
\* contribution, and exactly the last point is flagged as the retirement month.
C23_Timeline ==
  PlanShown =>
    \A shown \in 0 .. (Len(ret.result.plan.scenarios) - 1) :
      LET plan == ret.result.plan
          scenario == plan.scenarios[shown + 1]
          points == resultsView(ret.result, shown).points
          savings == currentSavingsNumber(args.texts)
      IN /\ Len(points) = plan.monthsToRetirement + 1
         /\ \A i \in 1 .. Len(points) :
              /\ points[i].monthIndex = i - 1
              /\ points[i].isRetirementMonth = (i - 1 = plan.monthsToRetirement)
              /\ points[i].invested =
                   Add(savings, Mul(scenario.monthlyContribution, Num(i - 1)))
              /\ points[i].total =
                   IF i = 1 THEN savings
                   ELSE Add(Mul(points[i - 1].total,
                                Add(Num(1), plan.monthlyRate)),
                            scenario.monthlyContribution)

\* C30: after every successful submit each value the results view reads is
\* defined in the plan returned by simulateRetirementPlan: plan.initialSavings
\* is the submitted current savings, the shown scenario's valueAtRetirement
\* is its futureValue, and its timeline is a non-empty point sequence.
C30_ViewReadsDefined ==
  PlanShown =>
    \A shown \in 0 .. (Len(ret.result.plan.scenarios) - 1) :
      LET view == resultsView(ret.result, shown)
      IN /\ view.initialSavings.t # "undefined"
         /\ view.valueAtRetirement.t # "undefined"
         /\ view.initialSavings = currentSavingsNumber(args.texts)
         /\ view.valueAtRetirement =
              ret.result.plan.scenarios[shown + 1].futureValue
         /\ view.points # <<>>

(***************************************************************************)
(* Claims about the quick calculators                                      *)
(***************************************************************************)
MonthsToMilestone == pc = "done" /\ op = "mesesHastaEdad"

\* the milestone birthday: the birth date plus the age in years
Milestone == addYears(args.fechaNacimiento, args.edadObjetivo)

\* C24: for every birth date, reference date and milestone age in 50, 55, 60,
\* 65 whose milestone lies in the future, the months remaining computed by
\* mesesHastaEdad and by monthsUntilAge equal
\* monthsBetweenDates(reference, addYears(birth, age)), and the future value
\* printed for a contribution equals the engine's future value of that
\* contribution over those months at the same annual rate.
C24_QuickCalculatorsAgree ==
  (MonthsToMilestone /\ DateLT(args.hoy, Milestone)) =>
    LET months == monthsBetweenDates(args.hoy, Milestone)
        monthlyRate == annualRateToMonthlyRate(Num(IntPow(2, 12) - 1))
    IN /\ ret = months
       /\ monthsUntilAge(args.fechaNacimiento, args.edadObjetivo, args.hoy)
            = months
       /\ fvAnualidadMensual(Num(3), monthlyRate, ret)
            = futureValueOfAnnuity(Num(3), monthlyRate, months)

\* C26: mesesHastaEdad(birth, age, today) returns 0 if and only if the
\* milestone birthday is on or before today; otherwise it returns the
\* smallest k >= 1 such that today advanced by k calendar months is on or
\* after the milestone (so a row is marked as reached, meses = 0, only when
\* the milestone date has been reached).
C26_ZeroIffReached ==
  MonthsToMilestone =>
    /\ ret.t = "num"
    /\ (ret.v = 0) <=> DateLE(Milestone, args.hoy)
    /\ DateLT(args.hoy, Milestone) =>
         /\ ret.v >= 1
         /\ DateLE(Milestone, AdvanceMonths(args.hoy, ret.v))
         /\ ~DateLE(Milestone, AdvanceMonths(args.hoy, ret.v - 1))

(***************************************************************************)
(* Claims about the interactive runs                                       *)
(***************************************************************************)
\* the birth date typed is a calendar date YYYY-MM-DD not after the clock date
BirthAnswerValid ==
  /\ parseISODate(args.texts.birthDate) # Null
  /\ DateLE(parseISODate(args.texts.birthDate), args.now)

\* the amount typed is a number above zero
AmountAnswerValid ==
  LET amount == StringToNumber(Str(CommasToPoints(args.texts.contributions[1].s)))
  IN IsFinite(amount) /\ ~LeqZero(amount)

\* C25: in a run of the interactive calculator a prompt is repeated until
\* its answer is valid: while the birth date typed is malformed, impossible
\* or in the future the birth date is asked again, while the amount typed is
\* not a number above zero the amount is asked again, and results are printed
\* only after a valid answer to each prompt (and then they are printed).
C25_PromptRepeatedUntilValid ==
  (pc = "done" /\ op = "calculatorMain") =>
    /\ ~BirthAnswerValid => ret.asks = "birthDate"
    /\ (BirthAnswerValid /\ ~AmountAnswerValid) => ret.asks = "monthlyContribution"
    /\ "results" \in DOMAIN ret <=> (BirthAnswerValid /\ AmountAnswerValid)

(***************************************************************************)
(* Claims about addYears and the age on the target date                    *)
(***************************************************************************)
\* C27: for every valid date and every finite non-integer year count y,
\* positive or negative, addYears(date, y) equals addYears(date, t) where t
\* is y with its fractional part dropped (truncated toward zero); for a
\* non-finite y or an invalid date it raises an error and returns nothing.
C27_FractionalYearsTruncated ==
  (pc = "done" /\ op = "addYears" /\ ~IsInteger(args.years)) =>
    IF IsValidDate(args.date) /\ IsFinite(args.years)
    THEN ret = addYears(args.date, Num(Trunc(args.years)))
    ELSE IsThrow(ret) /\ ret.kind = "TypeError"

\* the day before a date
DayBefore(date) == setUTCDate(date, date.d - 1)

\* C29: for every valid birth date b, a Feb 29 included, and every positive
\* integer n, calculateAgeInYears(addYears(b, n), b) = n, and on the day
\* before addYears(b, n) the age is n - 1.
C29_AgeOnTargetDate ==
  (YearsAdded /\ args.years.v > 0) =>
    /\ calculateAgeInYears(ret, args.date) = Num(args.years.v)
    /\ calculateAgeInYears(DayBefore(ret), args.date) = Num(args.years.v - 1)

(***************************************************************************)
(* Claims about the edits of the form                                      *)
(***************************************************************************)
\* the last handler run, with the field and the text it was given
LastEvent == args.events[Len(args.events)]

\* `value` typed as age derives the year: the form holds a valid birth date
\* and the age is a positive finite number
DerivesYear(form, value) ==
  /\ parseISODate(form.birthDate) # Null
  /\ IsFinite(StringToNumber(value))
  /\ ~LeqZero(StringToNumber(value))

\* `value` typed as year derives the age: the form holds a valid birth date
\* and the year is an integer greater than the birth year
DerivesAge(form, value) ==
  /\ parseISODate(form.birthDate) # Null
  /\ IsInteger(StringToNumber(value))
  /\ StringToNumber(value).v > parseISODate(form.birthDate).y

\* this step is an edit of `field`
Edited(field) == op' = "handleFieldChange" /\ LastEvent'[2] = field

\* the year birth year + whole part of the age typed
DerivedYear(form, value) ==
  parseISODate(form.birthDate).y + Trunc(StringToNumber(value))

\* an edit of the year sets the age, or leaves it
AgeDerivationStep ==
  Edited("retirementYear") =>
    args'.texts.retirementAge =
      IF DerivesAge(args.texts, LastEvent'[3])
      THEN NumberText(StringToNumber(LastEvent'[3]).v
                        - parseISODate(args.texts.birthDate).y)
      ELSE args.texts.retirementAge

\* an edit of the age sets the year, or leaves it
YearDerivationStep ==
  Edited("retirementAge") =>
    args'.texts.retirementYear =
      IF DerivesYear(args.texts, LastEvent'[3])
      THEN NumberText(DerivedYear(args.texts, LastEvent'[3]))
      ELSE args.texts.retirementYear

\* the last day a Date can hold
LastDate == MkDate(275760, 8, 13)

\* an edit of the age sets the year, to the text NaN when the derived year
\* is past the last date, or leaves it
YearOrNaNDerivationStep ==
  Edited("retirementAge") =>
    args'.texts.retirementYear =
      IF ~DerivesYear(args.texts, LastEvent'[3])
      THEN args.texts.retirementYear
      ELSE IF DateLE(MkDate(DerivedYear(args.texts, LastEvent'[3]),
                            parseISODate(args.texts.birthDate).m,
                            parseISODate(args.texts.birthDate).d),
                     LastDate)
      THEN NumberText(DerivedYear(args.texts, LastEvent'[3]))
      ELSE Str(<<"N", "a", "N">>)

\* this step is a submit right after a deriving edit
SubmitAfterDerivingEdit ==
  /\ op = "handleFieldChange"
  /\ op' = "handleSubmit"
  /\ \/ LastEvent[2] = "retirementAge" /\ DerivesYear(args.texts, LastEvent[3])
     \/ LastEvent[2] = "retirementYear" /\ DerivesAge(args.texts, LastEvent[3])

PlanWithoutMismatch ==
  /\ ret'.result # Null
  /\ ret'.errors = <<>>
  /\ ret'.result.plan.yearMismatch = Null

\* C28 as stated: age and year derive each other (an edit of the age to a
\* positive finite number with a valid birth date sets the year to birth
\* year + whole part of the age; an edit of the year to an integer above the
\* birth year sets the age to year - birth year; any other edit of the two
\* leaves the other field unchanged), and a submit right after either
\* deriving edit yields a plan with yearMismatch = null.
C28_DeriveThenPlan ==
  [][/\ YearDerivationStep
     /\ AgeDerivationStep
     /\ SubmitAfterDerivingEdit => PlanWithoutMismatch]_vars

\* C28 as amended: the same derivation, where the year derived from an age
\* is the text NaN once birth year + age is past the last date a Date holds,
\* and a submit right after either deriving edit yields either validation
\* errors and no plan, or a plan with yearMismatch = null.
C28_DeriveThenPlanOrErrors ==
  [][/\ YearOrNaNDerivationStep
     /\ AgeDerivationStep
     /\ SubmitAfterDerivingEdit =>
          \/ ret'.result = Null /\ ret'.errors # <<>>
          \/ PlanWithoutMismatch]_vars

\* C28 witness: the year was edited to one year later than the form held,
\* the age followed it, and the submit that came next showed a plan without
\* a mismatch.
C28_Witness ==
  /\ op = "handleSubmit"
  /\ Len(args.events) >= 2
  /\ args.events[Len(args.events) - 1] =
       <<"handleFieldChange", "retirementYear",
         NumberText(FormBirthDate.y + FormAge + 1)>>
  /\ args.texts.birthDate = toISODate(FormBirthDate)
  /\ args.texts.retirementAge = NumberText(FormAge + 1)
  /\ ret.result # Null
  /\ ret.result.plan.yearMismatch = Null

====
